---- MODULE Spec2Model ----
(***************************************************************************)
(* A model of the eagleliz catalogue reader (src/eagleliz/core/reader.py), *)
(* of the metadata descriptor parser (src/eagleliz/model/metadata.py), of  *)
(* the Eagle API client (src/eagleliz/api/eaglelizapi.py), and of the      *)
(* commands and clients that work on the accepted items: sidegen, the      *)
(* Immich client, the upload commands and the temporary XMP storage.       *)
(*                                                                         *)
(* Eleven specifications share the module:                                 *)
(*   Spec           one run() of a freshly constructed EagleCoolReader     *)
(*                  over a catalogue directory;                            *)
(*   SpecRerun      run() called again and again on the same reader;       *)
(*   SpecResolver   EagleCoolReader._determine_main_file applied to a      *)
(*                  list of candidate paths;                               *)
(*   SpecParser     Metadata.from_json applied to a descriptor;            *)
(*   SpecClassifier EagleCoolReader.__scan_folder_contents applied to one  *)
(*                  item folder;                                           *)
(*   SpecApi        an operation of EagleAPI against a server response;    *)
(*   SpecSidegen    the sidegen command over an accepted list;             *)
(*   SpecImmich     the construction of an ImmichAPI client and one call;  *)
(*   SpecUploader   send2Immich and execSend2Immich over a catalogue;      *)
(*   SpecSearcher   generate_missing_xmps and cleanup_generated_xmps on    *)
(*                  one MediaSearcher;                                     *)
(*   SpecRecord     EagleFolder.from_dict and EagleItem.from_dict.         *)
(*                                                                         *)
(* File names are sequences of their dot-separated components, so that     *)
(* "photo.heic.png" is <<"photo", "heic", "png">>; Path.suffix, str.lower  *)
(* and Path.with_name are computed on that representation.                 *)
(***************************************************************************)
EXTENDS Naturals, Sequences, FiniteSets

VARIABLES
    \* the file system and the reader's configuration (reader.py 70-74)
    catalogue, include_deleted, file_types, filter_tags, include_base64,
    \* the reader's results (reader.py 75-78)
    items, error_paths, items_skipped, scanned_folders_count,
    \* run(): its position, its local list of folders, the loop index
    pc, folders, idx,
    \* per visited folder, the admission checks __handle_eagle_folder evaluated
    trace,
    \* _determine_main_file: argument, position, return value
    file_candidates, rpc, main_file,
    \* Metadata.from_json: argument, position, return value
    descriptor, ppc, parsed,
    \* calls of run() on the reader so far; the lengths of the results when
    \* the current call began; what the call before it added to the results
    runs, mark, prev,
    \* __scan_folder_contents: argument, position, return value
    item_folder, cpc, scanned,
    \* an EagleAPI operation: its name, the server's response, position, outcome
    operation, response, apc, outcome,
    \* sidegen: the accepted list, the dry flag, the sidecar files on disk, the
    \* two counters, the loop position, the command's position, per item
    \* handled what the loop did with it, and the sidecar files on disk when
    \* the command began
    catalog_path, media_list, dry, xmp_files, processed_count, error_count, item_idx,
    gpc, attempted, sidecars_before,
    \* ImmichAPI: the constructor's arguments and the environment, the client
    \* constructed, the call made on it, the server's answer to a request, the
    \* requests sent, the position, and what the constructor or the call came to
    immich_args, immich_env, client, immich_call, immich_response, requests_sent,
    mpc, immich_outcome,
    \* the upload to Immich: which command runs, its options, the entries of
    \* images/, the loop position, the command's position, the requests issued
    entry_point, upload_options, upload_entries, upload_idx, upc, upload_log,
    \* MediaSearcher: the accepted items of its result, its list of generated
    \* XMP files, its temporary directory, the temporary directories and the
    \* files in them on disk, and the calls made so far
    result_accepted, generated_xmps_list, temp_xmp_dir, temp_dirs, temp_files, calls,
    \* from_dict: the class, the dictionary handed to it, position, what it came to
    record_class, record_data, dpc, record

scanVars == <<catalogue, include_deleted, file_types, filter_tags, include_base64,
              items, error_paths, items_skipped, scanned_folders_count,
              pc, folders, idx, trace>>
resolverVars == <<file_candidates, rpc, main_file>>
parserVars == <<descriptor, ppc, parsed>>
rerunVars == <<runs, mark, prev>>
classifierVars == <<item_folder, cpc, scanned>>
apiVars == <<operation, response, apc, outcome>>
coreVars == <<scanVars, resolverVars, parserVars, rerunVars, classifierVars, apiVars>>
sidegenVars == <<catalog_path, media_list, dry, xmp_files, processed_count, error_count, item_idx,
                 gpc, attempted, sidecars_before>>
immichVars == <<immich_args, immich_env, client, immich_call, immich_response,
                requests_sent, mpc, immich_outcome>>
uploaderVars == <<entry_point, upload_options, upload_entries, upload_idx, upc, upload_log>>
searcherVars == <<result_accepted, generated_xmps_list, temp_xmp_dir, temp_dirs, temp_files,
                  calls>>
recordVars == <<record_class, record_data, dpc, record>>
toolVars == <<sidegenVars, immichVars, uploaderVars, searcherVars, recordVars>>
vars == <<coreVars, toolVars>>

(***************************************************************************)
(* Bounds of the model.                                                    *)
(***************************************************************************)
\* item entries under images/
MaxFolders == 2
\* candidate paths handed to _determine_main_file in SpecResolver
MaxCands == 4
\* calls of run() on one reader in SpecRerun
MaxRuns == 2
\* entries of the item folder in SpecClassifier
MaxFiles == 3
\* entries of images/ walked by the upload commands
MaxUploads == 2
\* calls of generate_missing_xmps and cleanup_generated_xmps on one MediaSearcher
MaxCalls == 3
\* items of the accepted list handed to sidegen
MaxItems == 2

\* Python's None
None == [none |-> TRUE]

\* an Optional[List]: None, or a list
NoList == [some |-> FALSE, list |-> <<>>]
Some(l) == [some |-> TRUE, list |-> l]

(***************************************************************************)
(* JSON values, as json.load returns them, tagged with their Python type.  *)
(***************************************************************************)
JNull == [t |-> "null"]
JStr(s) == [t |-> "str", v |-> s]
JInt(n) == [t |-> "int", v |-> n]
JFloat(s) == [t |-> "float", v |-> s]
JBool(b) == [t |-> "bool", v |-> b]
JList(q) == [t |-> "list", v |-> q]
JObj(f) == [t |-> "dict", v |-> f]

\* the empty mapping
EmptyMap == [k \in {} |-> JNull]

(***************************************************************************)
(* Metadata (pydantic BaseModel, metadata.py 50-104).  The class declares  *)
(* no model_config, so pydantic's default applies to undeclared keys.      *)
(***************************************************************************)
StrFields == {"id", "name", "ext", "url", "annotation"}
IntFields == {"size", "btime", "mtime", "modificationTime", "height", "width",
              "lastModified", "deletedTime"}
MetadataFields == StrFields \cup IntFields \cup
                  {"tags", "folders", "isDeleted", "noThumbnail", "palettes"}

\* the declared default of each field (metadata.py 74-91)
FieldDefault(f) ==
    CASE f \in {"tags", "folders", "palettes"} -> <<>>
      [] f = "isDeleted" -> FALSE
      [] f = "noThumbnail" -> JBool(FALSE)
      [] OTHER -> None

IsListOf(v, type) ==
    /\ v.t = "list"
    /\ \A i \in 1..Len(v.v) : v.v[i].t = type

\* Palette (metadata.py 38-47): color: List[int] and ratio: float, both required
ValidPalette(p) ==
    /\ p.t = "dict"
    /\ "color" \in DOMAIN p.v
    /\ IsListOf(p.v["color"], "int")
    /\ "ratio" \in DOMAIN p.v
    /\ p.v["ratio"].t \in {"float", "int"}

\* validation of one declared field against its annotation (metadata.py 74-91),
\* as pydantic does it for the JSON values of the model
ValidField(f, v) ==
    CASE f \in StrFields -> v.t \in {"str", "null"}
      [] f \in IntFields -> v.t \in {"int", "null"}
      [] f \in {"tags", "folders"} -> IsListOf(v, "str")
      [] f = "isDeleted" -> v.t = "bool" \/ (v.t = "int" /\ v.v \in {0, 1})
      [] f = "noThumbnail" -> v.t \in {"bool", "null"}
      [] f = "palettes" -> v.t = "list" /\ \A i \in 1..Len(v.v) : ValidPalette(v.v[i])

\* the attribute value a validated input becomes
FieldValue(f, v) ==
    CASE f \in {"tags", "folders"} -> [i \in 1..Len(v.v) |-> v.v[i].v]
      [] f = "isDeleted" -> IF v.t = "bool" THEN v.v ELSE v.v = 1
      [] f = "palettes" -> [i \in 1..Len(v.v) |->
                               [color |-> v.v[i].v["color"], ratio |-> v.v[i].v["ratio"]]]
      [] OTHER -> IF v.t = "null" THEN None ELSE v

\* the keys of the input that the constructed instance keeps: the declared
\* fields only (pydantic's default for undeclared keys is to ignore them)
KeptKeys(d) == DOMAIN d \cap MetadataFields

\* Metadata.from_json(dict) == cls(**dict) (metadata.py 93-104): raises for an
\* argument that is no mapping or that fails validation, otherwise returns the
\* instance, a mapping from attribute name to value
from_json(data) ==
    IF data.t # "dict" THEN [ok |-> FALSE, error |-> "TypeError"]
    ELSE IF \E f \in DOMAIN data.v \cap MetadataFields : ~ValidField(f, data.v[f])
    THEN [ok |-> FALSE, error |-> "ValidationError"]
    ELSE [ok |-> TRUE,
          obj |-> [a \in MetadataFields \cup KeptKeys(data.v) |->
                      IF a \in MetadataFields
                      THEN IF a \in DOMAIN data.v THEN FieldValue(a, data.v[a])
                           ELSE FieldDefault(a)
                      ELSE data.v[a]]]


(***************************************************************************)
(* File names and paths.  A name is the sequence of its dot-separated      *)
(* components; a path is a directory and a name.                           *)
(***************************************************************************)
\* str.lower() on a component
Lower(c) ==
    CASE c = "HEIC" -> "heic"
      [] c = "DNG" -> "dng"
      [] c = "PNG" -> "png"
      [] c = "JSON" -> "json"
      [] c = "x_THUMBNAIL" -> "x_thumbnail"
      [] c = "Metadata" -> "metadata"
      [] OTHER -> c

\* "_thumbnail" in c, for a component c (the substring holds no dot, so a name
\* contains it exactly when one of its components does)
HasThumbnailMark(c) == c \in {"x_thumbnail", "_thumbnail"}

\* Path.suffix without its leading dot: the last component, unless the name has
\* no dot, ends with a dot, or its only dot is its first character
Suffix(name) ==
    IF /\ Len(name) >= 2
       /\ name[Len(name)] # ""
       /\ ~(Len(name) = 2 /\ name[1] = "")
    THEN name[Len(name)]
    ELSE ""

\* the text of a suffix, as Path.suffix gives it
SuffixText(name) == IF Suffix(name) = "" THEN "" ELSE "." \o Suffix(name)

\* target_file.with_name(target_file.name + ".png") (reader.py 218)
WithPng(path) == [dir |-> path.dir, name |-> Append(path.name, "png")]

\* x in list
InList(x, list) == \E i \in 1..Len(list) : list[i] = x

\* a faulty selection of the targets: the suffix is compared as it is spelt
RECURSIVE TargetFilesCaseSensitive(_, _)
TargetFilesCaseSensitive(cands, ext) ==
    IF cands = <<>> THEN <<>>
    ELSE LET rest == TargetFilesCaseSensitive(Tail(cands), ext)
         IN IF Suffix(Head(cands).name) = ext
            THEN <<Head(cands)>> \o rest
            ELSE rest

\* [f for f in file_candidates if f.suffix.lower() == ext] (reader.py 215)
RECURSIVE TargetFiles(_, _)
TargetFiles(cands, ext) ==
    IF cands = <<>> THEN <<>>
    ELSE LET rest == TargetFiles(Tail(cands), ext)
         IN IF Lower(Suffix(Head(cands).name)) = ext
            THEN <<Head(cands)>> \o rest
            ELSE rest

\* a faulty inner loop: the first target is taken, paired or not
FirstTarget(targets, cands) ==
    IF targets = <<>> THEN None ELSE Head(targets)

\* the inner loop of reader.py 216-220: the first target whose ".png" sibling
\* is among the candidates, or None
RECURSIVE FirstPaired(_, _)
FirstPaired(targets, cands) ==
    IF targets = <<>> THEN None
    ELSE IF InList(WithPng(Head(targets)), cands) THEN Head(targets)
    ELSE FirstPaired(Tail(targets), cands)

\* a faulty priority list: .dng before .heic
priority_extensions_dng_first == <<"dng", "heic">>

\* priority_extensions (reader.py 212), without the leading dots
priority_extensions == <<"heic", "dng">>

\* the outer loop of reader.py 214-220 over the priority extensions
RECURSIVE PriorityMatch(_, _)
PriorityMatch(exts, cands) ==
    IF exts = <<>> THEN None
    ELSE LET hit == FirstPaired(TargetFiles(cands, Head(exts)), cands)
         IN IF hit # None THEN hit ELSE PriorityMatch(Tail(exts), cands)

\* a faulty resolver: no fall-back to the first candidate
determine_main_file_priority_only(cands) ==
    PriorityMatch(priority_extensions, cands)

\* EagleCoolReader._determine_main_file (reader.py 198-224)
determine_main_file(cands) ==
    IF cands = <<>> THEN None
    ELSE LET hit == PriorityMatch(priority_extensions, cands)
         IN IF hit # None THEN hit ELSE cands[1]


(***************************************************************************)
(* The scan of one item folder.  A file is [name, isFile, content]; the    *)
(* content is a JSON value when the bytes are a JSON text.                 *)
(***************************************************************************)
MetadataJson == <<"metadata", "json">>

\* FileType members
DefaultFileTypes == <<"IMAGE", "VIDEO", "AUDIO">>

\* pylizlib get_file_type, called at reader.py 135: the media type by the
\* extension, or "ValueError" for an extension it does not know.  The library
\* is not part of the repository; the table stands for its lists of extensions.
get_file_type(path) ==
    LET e == Lower(Suffix(path.name))
    IN CASE e \in {"jpg", "png", "heic"} -> "IMAGE"
         [] e = "mp4" -> "VIDEO"
         [] e = "mp3" -> "AUDIO"
         [] e = "txt" -> "TEXT"
         [] OTHER -> "ValueError"

\* json.load (reader.py 239): the value, or an error for bytes that are no JSON
json_load(content) ==
    IF "t" \in DOMAIN content THEN [ok |-> TRUE, data |-> content]
    ELSE [ok |-> FALSE, error |-> "JSONDecodeError"]

\* a faulty __load_metadata: the exception is swallowed and nothing is recorded
load_metadata_silent(file, folder) ==
    LET j == json_load(file.content)
        m == IF j.ok THEN from_json(j.data) ELSE j
    IN IF m.ok THEN [obj |-> m.obj, errors |-> <<>>]
       ELSE [obj |-> None, errors |-> <<>>]

\* EagleCoolReader.__load_metadata (reader.py 226-244): the Metadata or None,
\* and what it appends to error_paths
load_metadata(file, folder) ==
    LET j == json_load(file.content)
        m == IF j.ok THEN from_json(j.data) ELSE j
    IN IF m.ok THEN [obj |-> m.obj, errors |-> <<>>]
       ELSE [obj |-> None,
             errors |-> <<[path |-> folder.name,
                           reason |-> "Error reading metadata: " \o m.error]>>]

\* the loop of EagleCoolReader.__scan_folder_contents (reader.py 180-192) from
\* file i on, with the locals metadata_obj and media_candidates.  The result
\* carries, beside the returned triple, the local media_candidates.
RECURSIVE ScanLoop(_, _, _, _)
ScanLoop(folder, i, metadata_obj, media_candidates) ==
    IF i > Len(folder.files)
    THEN [metadata_obj |-> metadata_obj,
          media_file |-> determine_main_file(media_candidates),
          error_occurred |-> FALSE, errors |-> <<>>,
          media_candidates |-> media_candidates]
    ELSE LET f == folder.files[i]
         IN IF ~f.isFile THEN ScanLoop(folder, i + 1, metadata_obj, media_candidates)
            ELSE IF \E k \in 1..Len(f.name) : HasThumbnailMark(f.name[k])
            THEN ScanLoop(folder, i + 1, metadata_obj, media_candidates)
            ELSE IF f.name = MetadataJson
            THEN LET r == load_metadata(f, folder)
                 IN IF r.obj = None
                    THEN [metadata_obj |-> None, media_file |-> None,
                          error_occurred |-> TRUE, errors |-> r.errors,
                          media_candidates |-> media_candidates]
                    ELSE ScanLoop(folder, i + 1, r.obj, media_candidates)
            ELSE ScanLoop(folder, i + 1, metadata_obj,
                          Append(media_candidates, [dir |-> folder.name, name |-> f.name]))

\* EagleCoolReader.__scan_folder_contents (reader.py 164-196)
scan_folder_contents(folder) == ScanLoop(folder, 1, None, <<>>)

\* ", ".join(reason) (reader.py 123)
RECURSIVE Join(_)
Join(parts) ==
    IF parts = <<>> THEN ""
    ELSE IF Len(parts) = 1 THEN parts[1]
    ELSE parts[1] \o ", " \o Join(Tail(parts))

\* a faulty tag test: all(...) in place of any(...)
AllTagsMatch(tags) ==
    \A i \in 1..Len(filter_tags.list) : InList(filter_tags.list[i], tags)

\* any(tag in metadata_obj.tags for tag in self.filter_tags) (reader.py 145)
AnyTagMatches(tags) ==
    \E i \in 1..Len(filter_tags.list) : InList(filter_tags.list[i], tags)

\* a faulty test of the tag filter: "is not None" in place of the truth value
TagFilterNotNone == filter_tags.some

\* the truth value of self.filter_tags (reader.py 144): None and [] are false
TagFilterSet == filter_tags.some /\ filter_tags.list # <<>>

\* faulty orders of the admission checks: the deleted check left out, and the
\* type check moved before the deleted check
CheckOrderNoDeleted == <<"type", "tag">>
CheckOrderTypeFirst == <<"type", "deleted", "tag">>

\* the admission checks of reader.py 128-147, in the order of the code
CheckOrder == <<"deleted", "type", "tag">>

\* no reason: the check passed
Pass == ""

\* faulty admission checks: the ValueError of get_file_type is swallowed and
\* the item goes on to the tag check
CheckReasonUnsupportedPasses(check, item) ==
    CASE check = "deleted" ->
           IF item.metadata["isDeleted"] /\ ~include_deleted
           THEN "Item is deleted" ELSE Pass
      [] check = "type" ->
           LET detected_type == get_file_type(item.file_path)
           IN IF detected_type # "ValueError" /\ ~InList(detected_type, file_types)
              THEN "File type not requested: " \o detected_type
              ELSE Pass
      [] check = "tag" ->
           IF TagFilterSet /\ ~AnyTagMatches(item.metadata["tags"])
           THEN "Tag mismatch" ELSE Pass

\* one admission check on an item: the reason it records in items_skipped when
\* the item fails it, or Pass
\*   deleted  reader.py 129-131
\*   type     reader.py 134-141
\*   tag      reader.py 144-147
CheckReason(check, item) ==
    CASE check = "deleted" ->
           IF item.metadata["isDeleted"] /\ ~include_deleted
           THEN "Item is deleted" ELSE Pass
      [] check = "type" ->
           LET detected_type == get_file_type(item.file_path)
           IN IF detected_type = "ValueError"
              THEN "Unsupported file type: " \o SuffixText(item.file_path.name)
              ELSE IF ~InList(detected_type, file_types)
              THEN "File type not requested: " \o detected_type
              ELSE Pass
      [] check = "tag" ->
           IF TagFilterSet /\ ~AnyTagMatches(item.metadata["tags"])
           THEN "Tag mismatch" ELSE Pass

\* reader.py 149-158: the item with its base64 content, when requested and
\* the media file can be read
WithBase64(item, read_ok) ==
    IF include_base64 /\ read_ok
    THEN [item EXCEPT !.base64_content = [b64 |-> item.file_path]]
    ELSE item

\* reader.py 128-162: the checks in order, stopping at the first that fails.
\* Yields the returned item or None, what is appended to items_skipped, and the
\* checks evaluated.
RECURSIVE Admit(_, _, _, _)
Admit(checks, item, evaluated, read_ok) ==
    IF checks = <<>>
    THEN [result |-> WithBase64(item, read_ok), skipped |-> <<>>, errors |-> <<>>,
          checks |-> evaluated]
    ELSE LET reason == CheckReason(Head(checks), item)
         IN IF reason # Pass
            THEN [result |-> None,
                  skipped |-> <<[item |-> item, reason |-> reason]>>,
                  errors |-> <<>>, checks |-> Append(evaluated, Head(checks))]
            ELSE Admit(Tail(checks), item, Append(evaluated, Head(checks)), read_ok)

\* a faulty list of missing parts: the media file is looked at only when the
\* metadata is there
MissingPartsFirst(s) ==
    IF s.metadata_obj = None THEN <<"Missing metadata.json">>
    ELSE IF s.media_file = None THEN <<"Missing media file">>
    ELSE <<>>

\* reader.py 117-122: the parts of the folder that are missing
MissingParts(s) ==
    (IF s.metadata_obj = None THEN <<"Missing metadata.json">> ELSE <<>>)
    \o (IF s.media_file = None THEN <<"Missing media file">> ELSE <<>>)

\* a faulty __handle_eagle_folder: the error flag of the scan is not looked at,
\* so a folder whose metadata failed to load goes on to the missing-parts test
handle_eagle_folder_unflagged(folder, read_ok) ==
    LET s == scan_folder_contents(folder)
    IN IF MissingParts(s) # <<>>
       THEN [result |-> None, skipped |-> <<>>,
             errors |-> s.errors \o
                        <<[path |-> folder.name, reason |-> Join(MissingParts(s))]>>,
             checks |-> <<>>]
       ELSE Admit(CheckOrder,
                  [file_path |-> s.media_file, metadata |-> s.metadata_obj,
                   base64_content |-> None],
                  <<>>, read_ok)

\* EagleCoolReader.__handle_eagle_folder (reader.py 101-162): the returned item
\* or None, what it appends to items_skipped and to error_paths, and the
\* admission checks it evaluated, in order.  read_ok tells whether reading the
\* media file for the base64 content succeeds.
handle_eagle_folder(folder, read_ok) ==
    LET s == scan_folder_contents(folder)
    IN IF s.error_occurred
       THEN [result |-> None, skipped |-> <<>>, errors |-> s.errors, checks |-> <<>>]
       ELSE IF MissingParts(s) # <<>>
       THEN [result |-> None, skipped |-> <<>>,
             errors |-> <<[path |-> folder.name, reason |-> Join(MissingParts(s))]>>,
             checks |-> <<>>]
       ELSE Admit(CheckOrder,
                  [file_path |-> s.media_file, metadata |-> s.metadata_obj,
                   base64_content |-> None],
                  <<>>, read_ok)

(***************************************************************************)
(* The catalogues the reader is run over.                                  *)
(***************************************************************************)
\* bytes that are no JSON text
Bytes == [bytes |-> TRUE]

File(name, content) == [name |-> name, isFile |-> TRUE, content |-> content]

\* metadata.json of an item with an undeclared key
DescTagged ==
    JObj([tags |-> JList(<<JStr("b"), JStr("z")>>), unknownField |-> JInt(42)])
\* metadata.json of an item tagged "c"
DescOther == JObj([tags |-> JList(<<JStr("c")>>), annotation |-> JStr("note")])
\* metadata.json of a deleted item
DescDeleted == JObj([isDeleted |-> JBool(TRUE), tags |-> JList(<<JStr("c")>>)])
\* metadata.json with a palette entry that has no ratio
DescBadPalette ==
    JObj([tags |-> JList(<<JStr("b")>>),
          palettes |-> JList(<<JObj([color |-> JList(<<JInt(1), JInt(2), JInt(3)>>)])>>)])

\* the files other than metadata.json
Jpg == File(<<"a", "jpg">>, Bytes)
Txt == File(<<"notes", "txt">>, Bytes)
Xyz == File(<<"b", "xyz">>, Bytes)
Thumb == File(<<"x_thumbnail", "png">>, Bytes)
Heic == File(<<"photo", "heic">>, Bytes)
HeicPng == File(<<"photo", "heic", "png">>, Bytes)
SubDir == [name |-> <<"sub">>, isFile |-> FALSE, content |-> Bytes]

\* the contents of an item folder, in iteration order
FolderContents ==
    {<<>>,
     <<Jpg>>,
     <<Thumb, File(MetadataJson, DescTagged), SubDir>>,
     <<Jpg, File(MetadataJson, Bytes)>>,
     <<File(MetadataJson, Bytes), Thumb>>,
     <<Jpg, File(MetadataJson, DescTagged), Thumb>>,
     <<File(MetadataJson, DescDeleted), Txt>>,
     <<Xyz, File(MetadataJson, DescOther)>>,
     <<Jpg, File(MetadataJson, DescBadPalette)>>,
     <<HeicPng, File(MetadataJson, DescOther), Heic>>}

\* an entry of images/: an item folder, or a plain file
Entries ==
    {[isDir |-> TRUE, files |-> fs] : fs \in FolderContents}
    \cup {[isDir |-> FALSE, files |-> <<>>]}

\* the listings of images/ of at most MaxFolders entries; an entry is named by
\* its position
Listings ==
    UNION {[1..n -> Entries] : n \in 0..MaxFolders}

Named(listing) ==
    [i \in 1..Len(listing) |->
        [name |-> i, isDir |-> listing[i].isDir, files |-> listing[i].files]]

Catalogues ==
    {[imagesExists |-> FALSE, entries |-> <<>>]}
    \cup {[imagesExists |-> TRUE, entries |-> Named(l)] : l \in Listings}

\* the arguments of the constructor
FileTypeArgs == {NoList, Some(<<>>), Some(<<"IMAGE", "TEXT">>)}
FilterTagArgs == {NoList, Some(<<>>), Some(<<"a", "b">>)}

\* EagleCoolReader.__init__ (reader.py 72): the default for a missing or empty list
InitFileTypes(arg) ==
    IF ~arg.some \/ arg.list = <<>> THEN DefaultFileTypes ELSE arg.list

\* the first call of run() on a reader
FirstRun ==
    /\ runs = 1
    /\ mark = <<0, 0, 0>>
    /\ prev = None

ClassifierIdle ==
    /\ item_folder = None
    /\ cpc = "off"
    /\ scanned = None

ApiIdle ==
    /\ operation = ""
    /\ response = None
    /\ apc = "off"
    /\ outcome = None

SidegenIdle ==
    /\ catalog_path = ""
    /\ media_list = <<>>
    /\ dry = FALSE
    /\ xmp_files = {}
    /\ processed_count = 0
    /\ error_count = 0
    /\ item_idx = 0
    /\ gpc = "off"
    /\ attempted = <<>>
    /\ sidecars_before = {}

ImmichIdle ==
    /\ immich_args = None
    /\ immich_env = None
    /\ client = None
    /\ immich_call = None
    /\ immich_response = None
    /\ requests_sent = <<>>
    /\ mpc = "off"
    /\ immich_outcome = None

UploaderIdle ==
    /\ entry_point = ""
    /\ upload_options = None
    /\ upload_entries = <<>>
    /\ upload_idx = 0
    /\ upc = "off"
    /\ upload_log = <<>>

SearcherIdle ==
    /\ result_accepted = <<>>
    /\ generated_xmps_list = <<>>
    /\ temp_xmp_dir = <<>>
    /\ temp_dirs = {}
    /\ temp_files = {}
    /\ calls = <<>>

RecordIdle ==
    /\ record_class = ""
    /\ record_data = EmptyMap
    /\ dpc = "off"
    /\ record = None

ToolsIdle ==
    /\ SidegenIdle
    /\ ImmichIdle
    /\ UploaderIdle
    /\ SearcherIdle
    /\ RecordIdle

ResolverIdle ==
    /\ file_candidates = <<>>
    /\ rpc = "off"
    /\ main_file = None

ParserIdle ==
    /\ descriptor = JNull
    /\ ppc = "off"
    /\ parsed = None

ScanIdle ==
    /\ catalogue = [imagesExists |-> FALSE, entries |-> <<>>]
    /\ include_deleted = FALSE
    /\ file_types = DefaultFileTypes
    /\ filter_tags = NoList
    /\ include_base64 = FALSE
    /\ items = <<>>
    /\ error_paths = <<>>
    /\ items_skipped = <<>>
    /\ scanned_folders_count = 0
    /\ pc = "off"
    /\ folders = <<>>
    /\ idx = 0
    /\ trace = <<>>
    /\ FirstRun

\* EagleCoolReader.__init__ (reader.py 59-78) over some catalogue
Init ==
    /\ catalogue \in Catalogues
    /\ include_deleted \in BOOLEAN
    /\ \E arg \in FileTypeArgs : file_types = InitFileTypes(arg)
    /\ filter_tags \in FilterTagArgs
    /\ include_base64 \in BOOLEAN
    /\ items = <<>>
    /\ error_paths = <<>>
    /\ items_skipped = <<>>
    /\ scanned_folders_count = 0
    /\ pc = "init"
    /\ folders = <<>>
    /\ idx = 0
    /\ trace = <<>>
    /\ FirstRun
    /\ ToolsIdle
    /\ ResolverIdle
    /\ ParserIdle
    /\ ClassifierIdle
    /\ ApiIdle

\* a faulty start of run(): images/ is listed without the test that it exists
RunStartUnchecked ==
    /\ pc = "init"
    /\ pc' = "loop"
    /\ folders' = catalogue.entries
    /\ idx' = 1
    /\ UNCHANGED <<catalogue, include_deleted, file_types, filter_tags, include_base64,
                   items, error_paths, items_skipped, scanned_folders_count, trace>>
    /\ UNCHANGED <<resolverVars, parserVars, rerunVars, classifierVars, apiVars, toolVars>>

\* run() up to the loop (reader.py 88-93): raises ValueError when images/ does
\* not exist, otherwise lists it
RunStart ==
    /\ pc = "init"
    /\ IF ~catalogue.imagesExists
       THEN /\ pc' = "ValueError"
            /\ UNCHANGED <<folders, idx>>
       ELSE /\ pc' = "loop"
            /\ folders' = catalogue.entries
            /\ idx' = 1
    /\ UNCHANGED <<catalogue, include_deleted, file_types, filter_tags, include_base64,
                   items, error_paths, items_skipped, scanned_folders_count, trace>>
    /\ UNCHANGED <<resolverVars, parserVars, rerunVars, classifierVars, apiVars, toolVars>>

\* a faulty loop of run(): it is left at the first folder that records an error
RunFolderAborting ==
    /\ pc = "loop"
    /\ idx <= Len(folders)
    /\ \E read_ok \in BOOLEAN :
       \E folder \in {folders[idx]} :
       \E h \in {IF folder.isDir THEN handle_eagle_folder(folder, read_ok) ELSE None} :
            IF folder.isDir
            THEN /\ scanned_folders_count' = scanned_folders_count + 1
                 /\ error_paths' = error_paths \o h.errors
                 /\ items_skipped' = items_skipped \o h.skipped
                 /\ items' = IF h.result # None THEN Append(items, h.result) ELSE items
                 /\ trace' = Append(trace, [folder |-> folder.name, checks |-> h.checks])
                 /\ idx' = IF h.errors # <<>> THEN Len(folders) + 1 ELSE idx + 1
            ELSE /\ UNCHANGED <<scanned_folders_count, error_paths, items_skipped,
                                items, trace>>
                 /\ idx' = idx + 1
    /\ UNCHANGED <<catalogue, include_deleted, file_types, filter_tags, include_base64,
                   pc, folders>>
    /\ UNCHANGED <<resolverVars, parserVars, rerunVars, classifierVars, apiVars, toolVars>>

\* a faulty loop of run(): a folder handled by an earlier call is passed over
RunFolderOnce ==
    /\ pc = "loop"
    /\ idx <= Len(folders)
    /\ \E read_ok \in BOOLEAN :
       \E folder \in {folders[idx]} :
       \E fresh \in {folder.isDir /\ ~\E k \in 1..Len(trace) : trace[k].folder = folder.name} :
       \E h \in {IF fresh THEN handle_eagle_folder(folder, read_ok) ELSE None} :
            IF fresh
            THEN /\ scanned_folders_count' = scanned_folders_count + 1
                 /\ error_paths' = error_paths \o h.errors
                 /\ items_skipped' = items_skipped \o h.skipped
                 /\ items' = IF h.result # None THEN Append(items, h.result) ELSE items
                 /\ trace' = Append(trace, [folder |-> folder.name, checks |-> h.checks])
            ELSE UNCHANGED <<scanned_folders_count, error_paths, items_skipped, items, trace>>
    /\ idx' = idx + 1
    /\ UNCHANGED <<catalogue, include_deleted, file_types, filter_tags, include_base64,
                   pc, folders>>
    /\ UNCHANGED <<resolverVars, parserVars, rerunVars, classifierVars, apiVars, toolVars>>

\* a faulty loop of run(): only the folders that yield an item are counted
RunFolderCountingItems ==
    /\ pc = "loop"
    /\ idx <= Len(folders)
    /\ \E read_ok \in BOOLEAN :
       \E folder \in {folders[idx]} :
       \E h \in {IF folder.isDir THEN handle_eagle_folder(folder, read_ok) ELSE None} :
            IF folder.isDir
            THEN /\ scanned_folders_count' =
                       IF h.result # None THEN scanned_folders_count + 1
                       ELSE scanned_folders_count
                 /\ error_paths' = error_paths \o h.errors
                 /\ items_skipped' = items_skipped \o h.skipped
                 /\ items' = IF h.result # None THEN Append(items, h.result) ELSE items
                 /\ trace' = Append(trace, [folder |-> folder.name, checks |-> h.checks])
            ELSE UNCHANGED <<scanned_folders_count, error_paths, items_skipped, items, trace>>
    /\ idx' = idx + 1
    /\ UNCHANGED <<catalogue, include_deleted, file_types, filter_tags, include_base64,
                   pc, folders>>
    /\ UNCHANGED <<resolverVars, parserVars, rerunVars, classifierVars, apiVars, toolVars>>

\* one iteration of the loop of run() (reader.py 94-99)
RunFolder ==
    /\ pc = "loop"
    /\ idx <= Len(folders)
    /\ \E read_ok \in BOOLEAN :
       \E folder \in {folders[idx]} :
       \E h \in {IF folder.isDir THEN handle_eagle_folder(folder, read_ok) ELSE None} :
            IF folder.isDir
            THEN /\ scanned_folders_count' = scanned_folders_count + 1
                 /\ error_paths' = error_paths \o h.errors
                 /\ items_skipped' = items_skipped \o h.skipped
                 /\ items' = IF h.result # None THEN Append(items, h.result) ELSE items
                 /\ trace' = Append(trace, [folder |-> folder.name, checks |-> h.checks])
            ELSE UNCHANGED <<scanned_folders_count, error_paths, items_skipped, items, trace>>
    /\ idx' = idx + 1
    /\ UNCHANGED <<catalogue, include_deleted, file_types, filter_tags, include_base64,
                   pc, folders>>
    /\ UNCHANGED <<resolverVars, parserVars, rerunVars, classifierVars, apiVars, toolVars>>

\* run() returns after the last folder
RunReturn ==
    /\ pc = "loop"
    /\ idx > Len(folders)
    /\ pc' = "done"
    /\ UNCHANGED <<catalogue, include_deleted, file_types, filter_tags, include_base64,
                   items, error_paths, items_skipped, scanned_folders_count,
                   folders, idx, trace>>
    /\ UNCHANGED <<resolverVars, parserVars, rerunVars, classifierVars, apiVars, toolVars>>

Next == RunStart \/ RunFolder \/ RunReturn

Spec == Init /\ [][Next]_vars

(***************************************************************************)
(* SpecRerun: run() is called again on the same reader.  The result lists  *)
(* and the counter are attributes set in __init__ (reader.py 75-78); run() *)
(* assigns none of them, it appends and increments (reader.py 96-99).      *)
(***************************************************************************)
\* run() is called once more after it returned or raised
RunAgain ==
    /\ pc \in {"done", "ValueError"}
    /\ runs < MaxRuns
    /\ runs' = runs + 1
    /\ prev' = [accepted |-> [k \in 1..(Len(items) - mark[1]) |->
                                 [file_path |-> items[mark[1] + k].file_path,
                                  metadata |-> items[mark[1] + k].metadata]],
                skipped |-> [k \in 1..(Len(items_skipped) - mark[2]) |->
                                 items_skipped[mark[2] + k]],
                errored |-> [k \in 1..(Len(error_paths) - mark[3]) |->
                                 error_paths[mark[3] + k]]]
    /\ mark' = <<Len(items), Len(items_skipped), Len(error_paths)>>
    /\ pc' = "init"
    /\ UNCHANGED <<catalogue, include_deleted, file_types, filter_tags, include_base64,
                   items, error_paths, items_skipped, scanned_folders_count,
                   folders, idx, trace>>
    /\ UNCHANGED <<resolverVars, parserVars, classifierVars, apiVars, toolVars>>

NextRerun == RunStart \/ RunFolder \/ RunReturn \/ RunAgain

\* a reader constructed without include_base64: the base64 content of an item
\* plays no part in which list a folder is put in
InitRerun ==
    /\ Init
    /\ ~include_base64

SpecRerun == InitRerun /\ [][NextRerun]_vars


(***************************************************************************)
(* SpecClassifier: __scan_folder_contents on one item folder.              *)
(***************************************************************************)
\* the entries an item folder may hold
ClassifierFiles ==
    {Jpg, Thumb, SubDir,
     File(<<"x_THUMBNAIL", "png">>, Bytes),
     File(MetadataJson, DescTagged),
     File(<<"metadata", "JSON">>, DescOther),
     File(<<"Metadata", "json">>, DescOther)}

\* item folders of at most MaxFiles different entries, in iteration order
ClassifierFolders ==
    {[name |-> 1, isDir |-> TRUE, files |-> l] :
        l \in {q \in UNION {[1..n -> ClassifierFiles] : n \in 0..MaxFiles} :
                  \A i, j \in 1..Len(q) : i # j => q[i] # q[j]}}

InitClassifier ==
    /\ item_folder \in ClassifierFolders
    /\ cpc = "call"
    /\ scanned = None
    /\ ScanIdle
    /\ ToolsIdle
    /\ ResolverIdle
    /\ ParserIdle
    /\ ApiIdle

\* a call of __scan_folder_contents (reader.py 164-196)
Classify ==
    /\ cpc = "call"
    /\ scanned' = scan_folder_contents(item_folder)
    /\ cpc' = "returned"
    /\ UNCHANGED <<item_folder, scanVars, resolverVars, parserVars, rerunVars, apiVars, toolVars>>

SpecClassifier == InitClassifier /\ [][Classify]_vars

(***************************************************************************)
(* SpecResolver: _determine_main_file on the candidate lists of a folder.  *)
(***************************************************************************)
\* names a folder may hold; ".heic" is a hidden file with no suffix
CandidateNames ==
    {<<"photo", "heic">>, <<"photo", "heic", "png">>,
     <<"photo", "HEIC">>, <<"photo", "HEIC", "png">>,
     <<"raw", "dng">>, <<"raw", "dng", "png">>,
     <<"a", "jpg">>,
     <<"", "heic">>, <<"", "heic", "png">>}

\* the lists of at most MaxCands different files of folder 1
CandidateLists ==
    {l \in UNION {[1..n -> CandidateNames] : n \in 0..MaxCands} :
        \A i, j \in 1..Len(l) : i # j => l[i] # l[j]}

InitResolver ==
    /\ \E l \in CandidateLists :
         file_candidates = [i \in 1..Len(l) |-> [dir |-> 1, name |-> l[i]]]
    /\ rpc = "call"
    /\ main_file = None
    /\ ScanIdle
    /\ ToolsIdle
    /\ ParserIdle
    /\ ClassifierIdle
    /\ ApiIdle

\* a call of _determine_main_file (reader.py 198-224)
Resolve ==
    /\ rpc = "call"
    /\ main_file' = determine_main_file(file_candidates)
    /\ rpc' = "returned"
    /\ UNCHANGED <<file_candidates, scanVars, parserVars, rerunVars, classifierVars, apiVars, toolVars>>

SpecResolver == InitResolver /\ [][Resolve]_vars

(***************************************************************************)
(* SpecParser: Metadata.from_json on descriptors.                          *)
(***************************************************************************)
DescriptorKeys ==
    {"tags", "isDeleted", "annotation", "size", "palettes", "unknownField", "star"}

\* the values a descriptor may give a key
ValuesOf(k) ==
    CASE k = "tags" -> {JList(<<JStr("x"), JStr("y")>>), JStr("x")}
      [] k = "isDeleted" -> {JBool(TRUE), JInt(1)}
      [] k = "annotation" -> {JStr("note"), JNull}
      [] k = "size" -> {JInt(10)}
      [] k = "palettes" ->
           {JList(<<JObj([color |-> JList(<<JInt(1), JInt(2), JInt(3)>>),
                          ratio |-> JFloat("0.5")])>>),
            JList(<<JObj([color |-> JList(<<JInt(1), JInt(2), JInt(3)>>)])>>),
            JList(<<JObj([color |-> JList(<<JInt(1), JInt(2)>>),
                          ratio |-> JFloat("0.5")])>>)}
      [] k = "unknownField" -> {JInt(42)}
      [] k = "star" -> {JStr("v")}

\* the mappings over a subset of keys, each key with one of its values
RECURSIVE Objects(_)
Objects(keys) ==
    IF keys = {} THEN {EmptyMap}
    ELSE LET k == CHOOSE x \in keys : TRUE
             rest == Objects(keys \ {k})
         IN rest \cup {[x \in DOMAIN o \cup {k} |-> IF x = k THEN v ELSE o[x]] :
                          o \in rest, v \in ValuesOf(k)}

\* what json.load may hand to from_json: an object, or a value that is none
Descriptors == {JObj(o) : o \in Objects(DescriptorKeys)} \cup {JList(<<>>), JNull}

InitParser ==
    /\ descriptor \in Descriptors
    /\ ppc = "call"
    /\ parsed = None
    /\ ScanIdle
    /\ ToolsIdle
    /\ ResolverIdle
    /\ ClassifierIdle
    /\ ApiIdle

\* a call of Metadata.from_json (metadata.py 93-104)
Parse ==
    /\ ppc = "call"
    /\ parsed' = from_json(descriptor)
    /\ ppc' = "returned"
    /\ UNCHANGED <<descriptor, scanVars, resolverVars, rerunVars, classifierVars, apiVars, toolVars>>

SpecParser == InitParser /\ [][Parse]_vars


(***************************************************************************)
(* SpecApi: an operation of EagleAPI (api/eaglelizapi.py 176-657) against  *)
(* what the server answers.  Of a request only its outcome matters here:   *)
(* urlopen raises HTTPError or URLError, or yields a response with a body. *)
(***************************************************************************)
\* the operations that return True after _make_request returned
BooleanOperations ==
    {"add_item_from_url", "add_items_from_urls", "add_item_from_path",
     "add_items_from_paths", "add_bookmark", "move_to_trash",
     "refresh_item_palette", "refresh_item_thumbnail"}

\* the operations modelled: the boolean ones, and one that returns the data
Operations == BooleanOperations \cup {"get_item_thumbnail"}

\* the bodies of a response: bytes that are no UTF-8 text, a text that is no
\* JSON, or the text of a JSON value
Bodies ==
    {[utf8 |-> FALSE, json |-> FALSE, value |-> JNull],
     [utf8 |-> TRUE, json |-> FALSE, value |-> JNull],
     [utf8 |-> TRUE, json |-> TRUE, value |-> JList(<<>>)],
     [utf8 |-> TRUE, json |-> TRUE, value |-> JNull],
     [utf8 |-> TRUE, json |-> TRUE, value |-> JObj(EmptyMap)],
     [utf8 |-> TRUE, json |-> TRUE, value |-> JObj([status |-> JStr("error")])],
     [utf8 |-> TRUE, json |-> TRUE,
      value |-> JObj([status |-> JStr("error"), data |-> JStr("/lib/a_thumbnail.png")])],
     [utf8 |-> TRUE, json |-> TRUE, value |-> JObj([status |-> JStr("success")])],
     [utf8 |-> TRUE, json |-> TRUE,
      value |-> JObj([status |-> JStr("success"), data |-> JStr("/lib/a_thumbnail.png")])],
     [utf8 |-> TRUE, json |-> TRUE,
      value |-> JObj([status |-> JStr("success"), data |-> JObj(EmptyMap)])]}

\* what urlopen does with the request
Responses ==
    {[kind |-> "HTTPError", code |-> c, body |-> b] :
        c \in {"404", "500"},
        b \in {[utf8 |-> FALSE, json |-> FALSE, value |-> JNull],
               [utf8 |-> TRUE, json |-> FALSE, value |-> JNull]}}
    \cup {[kind |-> "URLError", code |-> "", body |-> [utf8 |-> TRUE, json |-> FALSE, value |-> JNull]]}
    \cup {[kind |-> "response", code |-> "200", body |-> b] : b \in Bodies}

Raise(type, message) == [raised |-> TRUE, type |-> type, message |-> message, value |-> JNull]
Return(value) == [raised |-> FALSE, type |-> "", message |-> "", value |-> value]

\* dict.get(key, default) on a JSON object
Get(d, key, default) == IF key \in DOMAIN d.v THEN d.v[key] ELSE default

\* str(value) for the data of the model
Str(value) == IF value.t = "str" THEN value ELSE JStr("{}")

\* a faulty _make_request: the status of the answer is not looked at
make_request_unchecked(resp) ==
    IF resp.kind = "HTTPError"
    THEN IF resp.body.utf8 THEN Raise("EagleAPIError", "HTTP " \o resp.code \o " error")
         ELSE Raise("UnicodeDecodeError", "")
    ELSE IF resp.kind = "URLError" THEN Raise("EagleAPIError", "Connection error")
    ELSE IF ~resp.body.utf8 THEN Raise("UnicodeDecodeError", "")
    ELSE IF ~resp.body.json THEN Raise("EagleAPIError", "JSON Parse error")
    ELSE IF resp.body.value.t # "dict" THEN Raise("AttributeError", "")
    ELSE Return(Get(resp.body.value, "data", JObj(EmptyMap)))

\* EagleAPI._make_request (eaglelizapi.py 182-208): what it raises, or the data
\* it returns
\*   HTTPError       199-202, the body of the error is decoded at 200
\*   URLError        203-205
\*   response        195 decodes and parses the body, 196-198 test the status
make_request(resp) ==
    IF resp.kind = "HTTPError"
    THEN IF resp.body.utf8 THEN Raise("EagleAPIError", "HTTP " \o resp.code \o " error")
         ELSE Raise("UnicodeDecodeError", "")
    ELSE IF resp.kind = "URLError" THEN Raise("EagleAPIError", "Connection error")
    ELSE IF ~resp.body.utf8 THEN Raise("UnicodeDecodeError", "")
    ELSE IF ~resp.body.json THEN Raise("EagleAPIError", "JSON Parse error")
    ELSE IF resp.body.value.t # "dict" THEN Raise("AttributeError", "")
    ELSE IF Get(resp.body.value, "status", JNull) # JStr("success")
    THEN Raise("EagleAPIError", "API returned status")
    ELSE Return(Get(resp.body.value, "data", JObj(EmptyMap)))

\* an operation: the request, then True (eaglelizapi.py 382-383, 402-403,
\* 439-440, 463-464, 500-501, 514-515, 563-564, 578-579) or str(data) (608-609)
Operate(op, resp) ==
    LET r == make_request(resp)
    IN IF r.raised THEN r
       ELSE IF op \in BooleanOperations THEN Return(JBool(TRUE))
       ELSE Return(Str(r.value))

InitApi ==
    /\ operation \in Operations
    /\ response \in Responses
    /\ apc = "call"
    /\ outcome = None
    /\ ScanIdle
    /\ ToolsIdle
    /\ ResolverIdle
    /\ ParserIdle
    /\ ClassifierIdle

\* a call of the operation
Call ==
    /\ apc = "call"
    /\ outcome' = Operate(operation, response)
    /\ apc' = "returned"
    /\ UNCHANGED <<operation, response, scanVars, resolverVars, parserVars, rerunVars,
                   classifierVars, toolVars>>

SpecApi == InitApi /\ [][Call]_vars

(***************************************************************************)
(* SpecSidegen: the sidegen command (src/eagleliz/sidegen.py) over the     *)
(* accepted list of a search.  The list comes from EagleCatalogSearcher    *)
(* and is an input here.  MetadataHandler belongs to pylizlib; its calls   *)
(* succeed or fail as the outcome o says, a successful generate_xmp        *)
(* writes the sidecar and a failed one writes nothing.                     *)
(***************************************************************************)
\* media.path.with_suffix(".xmp") (sidegen.py 98): the suffix is replaced, or
\* ".xmp" is appended to a name without suffix
with_suffix_xmp(path) ==
    [dir |-> path.dir,
     name |-> IF Suffix(path.name) = "" THEN Append(path.name, "xmp")
              ELSE SubSeq(path.name, 1, Len(path.name) - 1) \o <<"xmp">>]

\* Path.exists, Path.unlink and the writing of a file, on a set of files
Exists(files, path) == \E f \in files : f.path = path
Unlink(files, path) == {f \in files : f.path # path}
Write(files, path, content) == Unlink(files, path) \cup {[path |-> path, content |-> content]}

\* what the loop body comes to: the files, the two increments, and whether
\* generate_xmp was called and what it gave
Handled(files, processed, errors, generate) ==
    [files |-> files, processed |-> processed, errors |-> errors, generate |-> generate]

\* a faulty loop body: the exception is caught and not counted
process_item_uncounted(media, files, is_dry, o) ==
    LET xmp_path == with_suffix_xmp(media.path)
        f1 == Unlink(files, xmp_path)
        f2 == Write(f1, xmp_path, "xmp")
        f3 == Write(f2, xmp_path, "xmp+date")
    IN IF is_dry THEN Handled(files, 1, 0, "not called")
       ELSE IF Exists(files, xmp_path) /\ o.unlink = "raise"
       THEN Handled(files, 0, 0, "not called")
       ELSE IF o.generate = "raise" THEN Handled(f1, 0, 0, "raise")
       ELSE IF o.generate = "False" THEN Handled(f1, 0, 1, "False")
       ELSE IF o.date = "raise" THEN Handled(f2, 0, 0, "True")
       ELSE IF media.eagle_metadata /\ o.append = "raise" THEN Handled(f3, 0, 0, "True")
       ELSE IF media.eagle_metadata
       THEN Handled(Write(f3, xmp_path, "xmp+date+eagle"), 1, 0, "True")
       ELSE Handled(f3, 1, 0, "True")

\* a faulty loop body: the sidecar is deleted before dry is tested
process_item_unlink_first(media, files, is_dry, o) ==
    LET xmp_path == with_suffix_xmp(media.path)
        f1 == Unlink(files, xmp_path)
        f2 == Write(f1, xmp_path, "xmp")
        f3 == Write(f2, xmp_path, "xmp+date")
    IN IF is_dry THEN Handled(f1, 1, 0, "not called")
       ELSE IF Exists(files, xmp_path) /\ o.unlink = "raise"
       THEN Handled(files, 0, 1, "not called")
       ELSE IF o.generate = "raise" THEN Handled(f1, 0, 1, "raise")
       ELSE IF o.generate = "False" THEN Handled(f1, 0, 1, "False")
       ELSE IF o.date = "raise" THEN Handled(f2, 0, 1, "True")
       ELSE IF media.eagle_metadata /\ o.append = "raise" THEN Handled(f3, 0, 1, "True")
       ELSE IF media.eagle_metadata
       THEN Handled(Write(f3, xmp_path, "xmp+date+eagle"), 1, 0, "True")
       ELSE Handled(f3, 1, 0, "True")

\* the loop body of sidegen for an item with media (sidegen.py 92-127): the
\* dry branch, and the try block with its except clause
process_item(media, files, is_dry, o) ==
    LET xmp_path == with_suffix_xmp(media.path)
        f1 == Unlink(files, xmp_path)
        f2 == Write(f1, xmp_path, "xmp")
        f3 == Write(f2, xmp_path, "xmp+date")
    IN IF is_dry THEN Handled(files, 1, 0, "not called")
       ELSE IF Exists(files, xmp_path) /\ o.unlink = "raise"
       THEN Handled(files, 0, 1, "not called")
       ELSE IF o.generate = "raise" THEN Handled(f1, 0, 1, "raise")
       ELSE IF o.generate = "False" THEN Handled(f1, 0, 1, "False")
       ELSE IF o.date = "raise" THEN Handled(f2, 0, 1, "True")
       ELSE IF media.eagle_metadata /\ o.append = "raise" THEN Handled(f3, 0, 1, "True")
       ELSE IF media.eagle_metadata
       THEN Handled(Write(f3, xmp_path, "xmp+date+eagle"), 1, 0, "True")
       ELSE Handled(f3, 1, 0, "True")

\* what the calls inside the try block come to: Path.unlink, generate_xmp,
\* the reading and setting of the creation date, append_eagle_to_xmp
SidegenOutcomes ==
    [unlink : {"ok", "raise"}, generate : {"True", "False", "raise"},
     date : {"ok", "raise"}, append : {"ok", "raise"}]

\* the names of the primary assets
MediaNames == {<<"a", "jpg">>, <<"photo", "heic", "png">>, <<"clip">>}

\* an accepted item: without media, or with media that has Eagle metadata or not
AcceptedItems ==
    {[media |-> FALSE, name |-> <<>>, eagle_metadata |-> FALSE]}
    \cup [media : {TRUE}, name : MediaNames, eagle_metadata : BOOLEAN]

AcceptedLists == UNION {[1..n -> AcceptedItems] : n \in 0..MaxItems}

\* item.media of the item at position k; every item has a folder of its own
MediaOf(k) ==
    [path |-> [dir |-> k, name |-> media_list[k].name],
     eagle_metadata |-> media_list[k].eagle_metadata]

InitSidegen ==
    /\ catalog_path \in {"", "absent", "library"}
    /\ \E l \in AcceptedLists :
         /\ catalog_path # "library" => l = <<>>
         /\ media_list = l
         /\ \E had \in SUBSET {k \in 1..Len(l) : l[k].media} :
              xmp_files = {[path |-> with_suffix_xmp([dir |-> k, name |-> l[k].name]),
                            content |-> "old"] : k \in had}
    /\ dry \in BOOLEAN
    /\ processed_count = 0
    /\ error_count = 0
    /\ item_idx = 0
    /\ gpc = "start"
    /\ attempted = <<>>
    /\ sidecars_before = xmp_files
    /\ RecordIdle
    /\ ImmichIdle
    /\ UploaderIdle
    /\ SearcherIdle
    /\ ScanIdle
    /\ ResolverIdle
    /\ ParserIdle
    /\ ClassifierIdle
    /\ ApiIdle

\* sidegen up to its loop (sidegen.py 54-88): the validations of the path, the
\* search, the exit on an empty list
SidegenStart ==
    /\ gpc = "start"
    /\ IF catalog_path # "library" THEN gpc' = "Exit(1)"
       ELSE IF media_list = <<>> THEN gpc' = "Exit(0)"
       ELSE gpc' = "loop"
    /\ item_idx' = 1
    /\ processed_count' = 0
    /\ error_count' = 0
    /\ UNCHANGED <<catalog_path, media_list, dry, xmp_files, attempted, sidecars_before,
                   coreVars, immichVars, uploaderVars, searcherVars, recordVars>>

\* one iteration of the loop (sidegen.py 90-127)
SidegenItem ==
    /\ gpc = "loop"
    /\ item_idx <= Len(media_list)
    /\ IF ~media_list[item_idx].media
       THEN UNCHANGED <<xmp_files, processed_count, error_count, attempted>>
       ELSE \E o \in SidegenOutcomes :
              \E h \in {process_item(MediaOf(item_idx), xmp_files, dry, o)} :
                /\ xmp_files' = h.files
                /\ processed_count' = processed_count + h.processed
                /\ error_count' = error_count + h.errors
                /\ attempted' = Append(attempted,
                                       [item |-> item_idx,
                                        had_sidecar |->
                                            Exists(xmp_files,
                                                   with_suffix_xmp(MediaOf(item_idx).path)),
                                        generate |-> h.generate,
                                        processed |-> h.processed,
                                        errors |-> h.errors])
    /\ item_idx' = item_idx + 1
    /\ UNCHANGED <<catalog_path, media_list, dry, gpc, sidecars_before, coreVars,
                   immichVars, uploaderVars, searcherVars, recordVars>>

\* the end of the loop and the report (sidegen.py 129-138)
SidegenReturn ==
    /\ gpc = "loop"
    /\ item_idx > Len(media_list)
    /\ gpc' = "done"
    /\ UNCHANGED <<catalog_path, media_list, dry, xmp_files, processed_count, error_count,
                   item_idx, attempted, sidecars_before, coreVars, immichVars, uploaderVars, searcherVars,
                   recordVars>>

NextSidegen == SidegenStart \/ SidegenItem \/ SidegenReturn

SpecSidegen == InitSidegen /\ [][NextSidegen]_vars

(***************************************************************************)
(* SpecImmich: the construction of an ImmichAPI client and one call of     *)
(* upload_asset or update_asset (src/eagleliz/integration/immich.py).      *)
(***************************************************************************)
\* an Optional[str]: None, or a string
NoStr == [some |-> FALSE, str |-> ""]
SomeStr(s) == [some |-> TRUE, str |-> s]

\* the truth value of an Optional[str]: None and "" are false
Truthy(s) == s.some /\ s.str # ""

\* a or b (immich.py 34-35)
Or(a, b) == IF Truthy(a) THEN a ELSE b

\* str.rstrip("/") on the URLs of the model (immich.py 41)
RStripSlash(u) ==
    CASE u = "http://h/" -> "http://h"
      [] u = "http://h/api/" -> "http://h/api"
      [] u = "/" -> ""
      [] OTHER -> u

\* str.endswith("/api") on the URLs of the model (immich.py 42)
EndsWithApi(u) == u \in {"http://h/api", "http://e/api"}

\* ImmichAPI.__init__ (immich.py 20-49)
immich_init(args, env) ==
    LET base_url == Or(args.base_url, env.IMMICH_URL)
        api_key == Or(args.api_key, env.IMMICH_API_KEY)
        stripped == RStripSlash(base_url.str)
    IN IF ~Truthy(base_url) \/ ~Truthy(api_key)
       THEN [raised |-> TRUE, type |-> "ValueError", client |-> None]
       ELSE [raised |-> FALSE, type |-> "",
             client |-> [base_url |-> IF EndsWithApi(stripped) THEN stripped
                                      ELSE stripped \o "/api",
                         api_key |-> api_key.str]]

\* response.ok of requests: the status code is below 400
ResponseOk(resp) == resp.status_code < 400

\* what a call comes to: the requests it sent, and what it raised or returned
Came(sent, result) == [sent |-> sent, result |-> result]

\* the tail of upload_asset and update_asset after the request (immich.py
\* 101-104 and 131-134); a request that gets no response raises in requests
after_request(sent, resp) ==
    IF resp.kind = "ConnectionError" THEN Came(sent, Raise("ConnectionError", ""))
    ELSE IF ~ResponseOk(resp) THEN Came(sent, Raise("ImmichAPIError", ""))
    ELSE IF ~resp.json THEN Came(sent, Raise("JSONDecodeError", ""))
    ELSE Came(sent, Return(resp.value))

\* ImmichAPI.upload_asset (immich.py 64-104); a file that exists and cannot be
\* opened raises at open()
upload_asset(c, call, resp) ==
    IF call.file = "absent" THEN Came(<<>>, Raise("FileNotFoundError", ""))
    ELSE IF call.file = "unreadable" THEN Came(<<>>, Raise("PermissionError", ""))
    ELSE after_request(<<[method |-> "POST", url |-> c.base_url \o "/assets",
                          x_api_key |-> c.api_key,
                          deviceAssetId |-> IF Truthy(call.device_asset_id)
                                            THEN call.device_asset_id.str
                                            ELSE call.filename]>>,
                       resp)

\* a faulty update_asset: the body is returned whatever the status
update_asset_unchecked_status(c, call, resp) ==
    LET sent == <<[method |-> "PUT", url |-> c.base_url \o "/assets/" \o call.asset_id,
                   x_api_key |-> c.api_key,
                   payload |-> {k \in {"isFavorite", "isArchived"} : call[k] # "None"}
                               \cup (IF call.description.some THEN {"description"} ELSE {})]>>
    IN IF resp.kind = "ConnectionError" THEN Came(sent, Raise("ConnectionError", ""))
       ELSE IF ~resp.json THEN Came(sent, Raise("JSONDecodeError", ""))
       ELSE Came(sent, Return(resp.value))

\* ImmichAPI.update_asset (immich.py 106-134)
update_asset(c, call, resp) ==
    after_request(<<[method |-> "PUT", url |-> c.base_url \o "/assets/" \o call.asset_id,
                     x_api_key |-> c.api_key,
                     payload |-> {k \in {"isFavorite", "isArchived"} : call[k] # "None"}
                                 \cup (IF call.description.some THEN {"description"}
                                       ELSE {})]>>,
                  resp)

\* the arguments of the constructor and the environment
ImmichArgs ==
    [base_url : {NoStr, SomeStr(""), SomeStr("http://h"), SomeStr("http://h/"),
                 SomeStr("http://h/api/")},
     api_key : {NoStr, SomeStr(""), SomeStr("k")}]

ImmichEnvs ==
    [IMMICH_URL : {NoStr, SomeStr(""), SomeStr("http://e/api"), SomeStr("/")},
     IMMICH_API_KEY : {NoStr, SomeStr("k2")}]

\* the calls made on the client
ImmichCalls ==
    [op : {"upload_asset"}, file : {"absent", "unreadable", "file"},
     filename : {"a.jpg"}, device_asset_id : {NoStr, SomeStr("dev-1")}]
    \cup [op : {"update_asset"}, asset_id : {"id-1"}, isFavorite : {"None", "False"},
          isArchived : {"None", "True"},
          description : {NoStr, SomeStr(""), SomeStr("note")}]

\* what the server does with a request
ImmichResponses ==
    {[kind |-> "ConnectionError", status_code |-> 0, json |-> FALSE, value |-> JNull]}
    \cup [kind : {"response"}, status_code : {200, 201, 400, 401, 500},
          json : {TRUE}, value : {JObj([id |-> JStr("id-1")])}]
    \cup [kind : {"response"}, status_code : {200, 201, 400, 401, 500},
          json : {FALSE}, value : {JNull}]

InitImmich ==
    /\ immich_args \in ImmichArgs
    /\ immich_env \in ImmichEnvs
    /\ client = None
    /\ immich_call \in ImmichCalls
    /\ immich_response \in ImmichResponses
    /\ requests_sent = <<>>
    /\ mpc = "new"
    /\ immich_outcome = None
    /\ RecordIdle
    /\ SidegenIdle
    /\ UploaderIdle
    /\ SearcherIdle
    /\ ScanIdle
    /\ ResolverIdle
    /\ ParserIdle
    /\ ClassifierIdle
    /\ ApiIdle

\* ImmichAPI(base_url, api_key)
ImmichConstruct ==
    /\ mpc = "new"
    /\ \E r \in {immich_init(immich_args, immich_env)} :
         /\ client' = r.client
         /\ IF r.raised
            THEN mpc' = "raised" /\ immich_outcome' = Raise(r.type, "")
            ELSE mpc' = "ready" /\ immich_outcome' = None
    /\ UNCHANGED <<immich_args, immich_env, immich_call, immich_response, requests_sent,
                   coreVars, sidegenVars, uploaderVars, searcherVars, recordVars>>

\* the call of upload_asset or update_asset on the client
ImmichCall ==
    /\ mpc = "ready"
    /\ \E r \in {IF immich_call.op = "upload_asset"
                 THEN upload_asset(client, immich_call, immich_response)
                 ELSE update_asset(client, immich_call, immich_response)} :
         /\ requests_sent' = requests_sent \o r.sent
         /\ immich_outcome' = r.result
         /\ mpc' = IF r.result.raised THEN "raised" ELSE "returned"
    /\ UNCHANGED <<immich_args, immich_env, client, immich_call, immich_response,
                   coreVars, sidegenVars, uploaderVars, searcherVars, recordVars>>

NextImmich == ImmichConstruct \/ ImmichCall

SpecImmich == InitImmich /\ [][NextImmich]_vars

(***************************************************************************)
(* SpecUploader: the two commands that send the items of a catalogue to    *)
(* Immich, send2Immich of src/eagleliz/cli.py and execSend2Immich of       *)
(* src/eagleliz/send2immich.py.  The functions upload_asset_to_immich and  *)
(* update_immich_asset that cli.py imports from eagleliz.integration.immich *)
(* are not in the sources: each is taken as one request with a success or  *)
(* failure outcome.                                                        *)
(***************************************************************************)
\* "thumbnail" in item.name.lower() (cli.py 88-89, send2immich.py 149-150)
HasThumbnailWord(name) ==
    \E k \in 1..Len(name) : Lower(name[k]) \in {"x_thumbnail", "_thumbnail"}

\* item.name.lower() == "metadata.json" (cli.py 91, send2immich.py 153)
IsMetadataName(name) == [k \in 1..Len(name) |-> Lower(name[k])] = MetadataJson

\* the scan of the folder's files (cli.py 83-96, send2immich.py 143-158), from
\* file i on
RECURSIVE UploadScan(_, _, _, _)
UploadScan(files, i, media_files, path_metadata) ==
    IF i > Len(files) THEN [media_files |-> media_files, path_metadata |-> path_metadata]
    ELSE IF ~files[i].isFile THEN UploadScan(files, i + 1, media_files, path_metadata)
    ELSE IF HasThumbnailWord(files[i].name)
    THEN UploadScan(files, i + 1, media_files, path_metadata)
    ELSE IF IsMetadataName(files[i].name)
    THEN UploadScan(files, i + 1, media_files, files[i])
    ELSE UploadScan(files, i + 1, Append(media_files, files[i]), path_metadata)

\* the requests a folder gave rise to, and the exception that left the command
Uploaded(requests, raised) == [requests |-> requests, raised |-> raised]

UploadRequest(media, success) ==
    [request |-> "upload", media |-> media.name, success |-> success]
UpdateRequest(media) ==
    [request |-> "update", media |-> media.name, success |-> TRUE]

\* the body of the loop of send2Immich for one folder (cli.py 81-133)
send2Immich_folder(files, options, o) ==
    LET s == UploadScan(files, 1, <<>>, None)
        media == s.media_files[1]
        d == s.path_metadata.content
    IN IF s.path_metadata = None THEN Uploaded(<<>>, "")
       ELSE IF s.media_files = <<>> THEN Uploaded(<<>>, "")
       ELSE IF ~d.json THEN Uploaded(<<>>, "")
       ELSE IF ~d.complete THEN Uploaded(<<>>, "ValidationError")
       ELSE IF \/ \E k \in 1..Len(options.ignore_tag) : InList(options.ignore_tag[k], d.tags)
               \/ options.ignore_uploaded /\ InList(options.tag_on_uploaded, d.tags)
       THEN Uploaded(<<>>, "")
       ELSE IF o.status < 400
       THEN Uploaded(<<UploadRequest(media, TRUE), UpdateRequest(media)>>, "")
       ELSE Uploaded(<<UploadRequest(media, FALSE)>>, "")

\* handle_media with upload_to_immich and update_immich_asset
\* (send2immich.py 46-119): success is status_code == 200, and the update
\* follows the upload whatever success is
handle_media(files, o) ==
    LET s == UploadScan(files, 1, <<>>, None)
        media == s.media_files[1]
        d == s.path_metadata.content
    IN IF s.path_metadata = None THEN Uploaded(<<>>, "")
       ELSE IF s.media_files = <<>> THEN Uploaded(<<>>, "")
       ELSE IF ~d.json THEN Uploaded(<<>>, "JSONDecodeError")
       ELSE IF InList("immich-uploaded", d.tags) THEN Uploaded(<<>>, "")
       ELSE IF ~o.json
       THEN Uploaded(<<UploadRequest(media, o.status = 200)>>, "JSONDecodeError")
       ELSE Uploaded(<<UploadRequest(media, o.status = 200), UpdateRequest(media)>>, "")

\* the content of a metadata.json: whether it is a JSON text, whether it has
\* every field the Metadata of system/metadata.py requires, its tags
Descriptor(json, complete, tags) == [json |-> json, complete |-> complete, tags |-> tags]

UploadFolders ==
    {<<Jpg>>,
     <<File(MetadataJson, Descriptor(TRUE, TRUE, <<>>)), Thumb, SubDir>>,
     <<Jpg, File(MetadataJson, Descriptor(FALSE, FALSE, <<>>))>>,
     <<Jpg, File(MetadataJson, Descriptor(TRUE, FALSE, <<>>))>>,
     <<Jpg, File(MetadataJson, Descriptor(TRUE, TRUE, <<"b">>)), Txt>>,
     <<Jpg, File(<<"Metadata", "JSON">>, Descriptor(TRUE, TRUE, <<>>))>>,
     <<Jpg, File(MetadataJson, Descriptor(TRUE, TRUE, <<"skip">>))>>,
     <<Jpg, File(MetadataJson, Descriptor(TRUE, TRUE, <<"immich-uploaded">>))>>}

UploadEntries ==
    {[isDir |-> TRUE, files |-> fs] : fs \in UploadFolders}
    \cup {[isDir |-> FALSE, files |-> <<>>]}

\* the options of send2Immich (cli.py 39-42), of which execSend2Immich has
\* none, and what the command finds when it starts: the endpoints reachable and
\* images/ present, or not
UploadOptions ==
    [ignore_tag : {<<>>, <<"skip">>}, ignore_uploaded : BOOLEAN,
     tag_on_uploaded : {"immich-uploaded"},
     found : {"ok", "endpoint unreachable", "no images folder"}]

\* how Immich answers an upload
UploadAnswers == [status : {200, 201, 401}, json : BOOLEAN]

InitUploader ==
    /\ entry_point \in {"send2Immich", "execSend2Immich"}
    /\ upload_options \in UploadOptions
    /\ entry_point = "execSend2Immich"
         => /\ upload_options.ignore_tag = <<>>
            /\ upload_options.ignore_uploaded
    /\ upload_entries \in UNION {[1..n -> UploadEntries] : n \in 0..MaxUploads}
    /\ upload_options.found # "ok" => upload_entries = <<>>
    /\ upload_idx = 0
    /\ upc = "start"
    /\ upload_log = <<>>
    /\ RecordIdle
    /\ SidegenIdle
    /\ ImmichIdle
    /\ SearcherIdle
    /\ ScanIdle
    /\ ResolverIdle
    /\ ParserIdle
    /\ ClassifierIdle
    /\ ApiIdle

\* the checks before the loop (cli.py 55-73, send2immich.py 124-136)
UploaderStart ==
    /\ upc = "start"
    /\ upc' = IF upload_options.found = "ok" THEN "loop" ELSE "Exit(1)"
    /\ upload_idx' = 1
    /\ UNCHANGED <<entry_point, upload_options, upload_entries, upload_log,
                   coreVars, sidegenVars, immichVars, searcherVars, recordVars>>

\* one iteration of the loop over images/ (cli.py 76-136, send2immich.py 138-160)
UploaderFolder ==
    /\ upc = "loop"
    /\ upload_idx <= Len(upload_entries)
    /\ IF ~upload_entries[upload_idx].isDir
       THEN UNCHANGED <<upload_log, upc>>
       ELSE \E o \in UploadAnswers :
              \E u \in {IF entry_point = "send2Immich"
                        THEN send2Immich_folder(upload_entries[upload_idx].files,
                                                upload_options, o)
                        ELSE handle_media(upload_entries[upload_idx].files, o)} :
                /\ upload_log' = upload_log \o
                       [k \in 1..Len(u.requests) |->
                           [folder |-> upload_idx, request |-> u.requests[k].request,
                            media |-> u.requests[k].media,
                            success |-> u.requests[k].success]]
                /\ upc' = IF u.raised = "" THEN "loop" ELSE u.raised
    /\ upload_idx' = upload_idx + 1
    /\ UNCHANGED <<entry_point, upload_options, upload_entries, coreVars, sidegenVars,
                   immichVars, searcherVars, recordVars>>

\* the end of the loop
UploaderReturn ==
    /\ upc = "loop"
    /\ upload_idx > Len(upload_entries)
    /\ upc' = "done"
    /\ UNCHANGED <<entry_point, upload_options, upload_entries, upload_idx, upload_log,
                   coreVars, sidegenVars, immichVars, searcherVars, recordVars>>

NextUploader == UploaderStart \/ UploaderFolder \/ UploaderReturn

SpecUploader == InitUploader /\ [][NextUploader]_vars

(***************************************************************************)
(* SpecSearcher: generate_missing_xmps and cleanup_generated_xmps called   *)
(* on one MediaSearcher (src/eagleliz/controller/searcher.py), in any      *)
(* order.  The result of the search is an input.  A temporary directory is *)
(* named by its number in the order of creation, as <<n>>; <<>> is None.   *)
(* No call of the operating system fails.                                  *)
(***************************************************************************)
\* accepted_items (searcher.py 115): the positions of the accepted items with
\* media and without sidecar, in order
RECURSIVE MissingFrom(_, _)
MissingFrom(accepted, k) ==
    IF k > Len(accepted) THEN <<>>
    ELSE IF accepted[k].media /\ ~accepted[k].sidecar
    THEN <<k>> \o MissingFrom(accepted, k + 1)
    ELSE MissingFrom(accepted, k + 1)

\* temp_path (searcher.py 126-133): <temp dir>/<idx>/<stem>.xmp
TempPath(dir, index, name) ==
    [dir |-> dir, sub |-> index,
     name |-> IF Suffix(name) = "" THEN Append(name, "xmp")
              ELSE SubSeq(name, 1, Len(name) - 1) \o <<"xmp">>]

\* the loop of generate_missing_xmps (searcher.py 122-149) from the idx-th
\* missing item on; oc says for each what the try block came to: the XMP
\* written and attached, written with a later step raising, or not written
RECURSIVE GenerateLoop(_, _, _, _, _)
GenerateLoop(missing, index, dir, oc, s) ==
    IF index >= Len(missing) THEN s
    ELSE LET k == missing[index + 1]
             temp_path == TempPath(dir, index, s.accepted[k].name)
         IN GenerateLoop(missing, index + 1, dir, oc,
                CASE oc[k] = "attached" ->
                       [accepted |-> [s.accepted EXCEPT ![k].sidecar = TRUE],
                        list |-> Append(s.list, temp_path),
                        files |-> s.files \cup {temp_path}]
                  [] oc[k] = "written" ->
                       [s EXCEPT !.files = s.files \cup {temp_path}]
                  [] OTHER -> s)

\* shutil.rmtree of the searcher's temporary directory, when it has one and
\* the directory exists (searcher.py 170-174, 188-192)
RemoveTempDir(dir, dirs, files) ==
    IF dir # <<>> /\ dir[1] \in dirs
    THEN [dirs |-> dirs \ {dir[1]}, files |-> {f \in files : f.dir # dir[1]}]
    ELSE [dirs |-> dirs, files |-> files]

\* the accepted items of a search result
SearchItems ==
    {[media |-> FALSE, sidecar |-> FALSE, name |-> <<>>]}
    \cup [media : {TRUE}, sidecar : BOOLEAN, name : MediaNames]

InitSearcher ==
    /\ result_accepted \in UNION {[1..n -> SearchItems] : n \in 0..MaxItems}
    /\ generated_xmps_list = <<>>
    /\ temp_xmp_dir = <<>>
    /\ temp_dirs = {}
    /\ temp_files = {}
    /\ calls = <<>>
    /\ RecordIdle
    /\ SidegenIdle
    /\ ImmichIdle
    /\ UploaderIdle
    /\ ScanIdle
    /\ ResolverIdle
    /\ ParserIdle
    /\ ClassifierIdle
    /\ ApiIdle

\* MediaSearcher.generate_missing_xmps (searcher.py 105-163)
GenerateMissingXmps ==
    /\ Len(calls) < MaxCalls
    /\ LET dir == Len(SelectSeq(calls, LAMBDA c : c = "generate")) + 1
           missing == MissingFrom(result_accepted, 1)
       IN \E oc \in [{missing[n] : n \in 1..Len(missing)} ->
                        {"attached", "written", "not written"}] :
            \E s \in {GenerateLoop(missing, 0, dir, oc,
                                   [accepted |-> result_accepted, list |-> <<>>,
                                    files |-> temp_files])} :
              /\ temp_xmp_dir' = <<dir>>
              /\ temp_dirs' = temp_dirs \cup {dir}
              /\ result_accepted' = s.accepted
              /\ generated_xmps_list' = s.list
              /\ temp_files' = s.files
    /\ calls' = Append(calls, "generate")
    /\ UNCHANGED <<coreVars, sidegenVars, immichVars, uploaderVars, recordVars>>

\* MediaSearcher.cleanup_generated_xmps (searcher.py 165-193)
CleanupGeneratedXmps ==
    /\ Len(calls) < MaxCalls
    /\ \E r \in {RemoveTempDir(temp_xmp_dir, temp_dirs,
                               temp_files \ {generated_xmps_list[n] :
                                                n \in 1..Len(generated_xmps_list)})} :
         /\ temp_dirs' = r.dirs
         /\ temp_files' = r.files
    /\ calls' = Append(calls, "cleanup")
    /\ UNCHANGED <<result_accepted, generated_xmps_list, temp_xmp_dir,
                   coreVars, sidegenVars, immichVars, uploaderVars, recordVars>>

NextSearcher == GenerateMissingXmps \/ CleanupGeneratedXmps

SpecSearcher == InitSearcher /\ [][NextSearcher]_vars

(***************************************************************************)
(* SpecRecord: EagleFolder.from_dict and EagleItem.from_dict               *)
(* (src/eagleliz/api/eaglelizapi.py) applied to a dictionary.  A           *)
(* dictionary is a function from its keys to JSON values.                  *)
(***************************************************************************)
\* field_names of EagleFolder.from_dict (eaglelizapi.py 19-32, 41): the
\* dataclass fields other than _extra_data
FolderFields ==
    {"id", "name", "modificationTime", "images", "folders", "imagesMappings", "tags",
     "children", "isExpand", "size", "vstype", "editable", "pinyin", "styles"}

\* known_fields of EagleItem.from_dict (eaglelizapi.py 106-110)
ItemFields ==
    {"id", "name", "ext", "url", "annotation", "tags", "folders", "size", "isDeleted",
     "modificationTime", "lastModified", "noThumbnail", "width", "height", "palettes",
     "star"}

\* {k: v for k, v in data.items() if k in keys}
Restrict(data, keys) == [k \in DOMAIN data \cap keys |-> data[k]]

\* a faulty EagleFolder.from_dict: _extra_data is not handed to the constructor
\* and keeps the default of the dataclass
folder_from_dict_without_extra(data) ==
    IF ~{"id", "name"} \subseteq DOMAIN data
    THEN [raised |-> TRUE, type |-> "TypeError", fields |-> EmptyMap, extra_data |-> JNull]
    ELSE [raised |-> FALSE, type |-> "",
          fields |-> [f \in FolderFields |-> IF f \in DOMAIN data THEN data[f] ELSE JNull],
          extra_data |-> JNull]

\* EagleFolder.from_dict (eaglelizapi.py 38-45); the constructor raises
\* TypeError when id or name is missing
folder_from_dict(data) ==
    IF ~{"id", "name"} \subseteq DOMAIN data
    THEN [raised |-> TRUE, type |-> "TypeError", fields |-> EmptyMap, extra_data |-> JNull]
    ELSE [raised |-> FALSE, type |-> "",
          fields |-> [f \in FolderFields |-> IF f \in DOMAIN data THEN data[f] ELSE JNull],
          extra_data |-> JObj(Restrict(data, DOMAIN data \ FolderFields))]

\* the value from_dict gives a field of EagleItem (eaglelizapi.py 121-140):
\* "or []" for the lists, setdefault for the others
ItemField(data, f) ==
    IF f \in {"tags", "folders", "palettes"}
    THEN IF f \in DOMAIN data /\ data[f] \notin {JNull, JList(<<>>), JStr(""), JInt(0)}
         THEN data[f] ELSE JList(<<>>)
    ELSE IF f \in DOMAIN data THEN data[f]
    ELSE IF f \in {"id", "name", "ext", "url", "annotation"} THEN JStr("")
    ELSE IF f \in {"isDeleted", "noThumbnail"} THEN JBool(FALSE)
    ELSE JInt(0)

\* EagleItem.from_dict (eaglelizapi.py 103-145)
item_from_dict(data) ==
    [raised |-> FALSE, type |-> "",
     fields |-> [f \in ItemFields |-> ItemField(data, f)],
     extra_data |-> JObj(Restrict(data, DOMAIN data \ ItemFields))]

\* the dictionaries handed to from_dict
RecordData ==
    UNION {[keys -> {JNull, JStr("v"), JList(<<JStr("t")>>)}] :
              keys \in SUBSET {"id", "name", "tags", "star", "children", "description",
                               "_extra_data"}}

InitRecord ==
    /\ record_class \in {"EagleFolder", "EagleItem"}
    /\ record_data \in RecordData
    /\ dpc = "call"
    /\ record = None
    /\ SidegenIdle
    /\ ImmichIdle
    /\ UploaderIdle
    /\ SearcherIdle
    /\ ScanIdle
    /\ ResolverIdle
    /\ ParserIdle
    /\ ClassifierIdle
    /\ ApiIdle

\* a call of from_dict
FromDict ==
    /\ dpc = "call"
    /\ record' = IF record_class = "EagleFolder" THEN folder_from_dict(record_data)
                 ELSE item_from_dict(record_data)
    /\ dpc' = IF record'.raised THEN "raised" ELSE "returned"
    /\ UNCHANGED <<record_class, record_data, coreVars, sidegenVars, immichVars,
                   uploaderVars, searcherVars>>

SpecRecord == InitRecord /\ [][FromDict]_vars

(***************************************************************************)
(* Properties of the scan (Spec).                                          *)
(***************************************************************************)
\* the item directories of the catalogue: the immediate child directories of images/
Dirs == {i \in 1..Len(catalogue.entries) : catalogue.entries[i].isDir}

FilesOf(i) == catalogue.entries[i].files

\* the positions at which folder i stands in each result list
InAccepted(i) == {k \in 1..Len(items) : items[k].file_path.dir = i}
InSkipped(i) == {k \in 1..Len(items_skipped) : items_skipped[k].item.file_path.dir = i}
InErrored(i) == {k \in 1..Len(error_paths) : error_paths[k].path = i}

Occurrences(i) ==
    Cardinality(InAccepted(i)) + Cardinality(InSkipped(i)) + Cardinality(InErrored(i))

\* folder i is in errored once, with this reason, and in no other list
ErroredWith(i, reason) ==
    /\ Occurrences(i) = 1
    /\ \E k \in InErrored(i) : error_paths[k].reason = reason

\* folder i is in skipped once, with this reason, and in no other list
SkippedWith(i, reason) ==
    /\ Occurrences(i) = 1
    /\ \E k \in InSkipped(i) : items_skipped[k].reason = reason

\* folder i is in accepted once, and in no other list
Accepted(i) ==
    /\ Occurrences(i) = 1
    /\ InAccepted(i) # {}

\* C1: after run() completes, every item directory stands in exactly one of
\* items, items_skipped and error_paths, and stands there exactly once.
C1_ExactlyOneList ==
    pc = "done" => \A i \in Dirs : Occurrences(i) = 1

\* a completed scan of two folders that ended in different lists
C1_Witness ==
    /\ pc = "done"
    /\ Cardinality(Dirs) = 2
    /\ Len(items) = 1
    /\ Len(error_paths) = 1

\* C2: every accepted item is not deleted, or include_deleted is set; a deleted
\* item is never accepted while include_deleted is false.
C2_NoDeletedAccepted ==
    \A k \in 1..Len(items) : ~items[k].metadata["isDeleted"] \/ include_deleted

\* a completed scan without include_deleted in which a deleted item was kept
\* out and another item was accepted, with a type filter that admits both
C2_Witness ==
    /\ pc = "done"
    /\ ~include_deleted
    /\ InList("TEXT", file_types)
    /\ items # <<>>
    /\ \E k \in 1..Len(items_skipped) :
         /\ items_skipped[k].item.metadata["isDeleted"]
         /\ items_skipped[k].reason = "Item is deleted"

\* folder i holds no regular file named metadata.json
NoMetadataJson(i) ==
    ~\E k \in 1..Len(FilesOf(i)) : FilesOf(i)[k].isFile /\ FilesOf(i)[k].name = MetadataJson

\* folder i holds no primary-asset candidate: no regular file that is neither a
\* thumbnail nor metadata.json
NoCandidate(i) ==
    ~\E k \in 1..Len(FilesOf(i)) :
        /\ FilesOf(i)[k].isFile
        /\ FilesOf(i)[k].name # MetadataJson
        /\ \A n \in 1..Len(FilesOf(i)[k].name) : ~HasThumbnailMark(FilesOf(i)[k].name[n])

\* the metadata.json of folder i, when it has one, is parsed without error
MetadataParses(i) ==
    \A k \in 1..Len(FilesOf(i)) :
        (FilesOf(i)[k].isFile /\ FilesOf(i)[k].name = MetadataJson)
        => /\ json_load(FilesOf(i)[k].content).ok
           /\ from_json(FilesOf(i)[k].content).ok

\* the reasons __load_metadata records for a metadata.json it cannot parse
ParseFailureReasons ==
    {"Error reading metadata: " \o e :
        e \in {"JSONDecodeError", "TypeError", "ValidationError"}}

\* the reason that lists exactly the missing parts of folder i
MissingReason(i) ==
    IF NoMetadataJson(i) /\ NoCandidate(i)
    THEN "Missing metadata.json, Missing media file"
    ELSE IF NoMetadataJson(i) THEN "Missing metadata.json"
    ELSE "Missing media file"

\* C3 as stated: a folder with no metadata.json, or with no primary-asset
\* candidate, is in errored and in no other list, and its reason lists exactly
\* the missing parts.
C3_AsStated ==
    pc = "done" =>
        \A i \in Dirs :
            (NoMetadataJson(i) \/ NoCandidate(i)) => ErroredWith(i, MissingReason(i))

\* C3, amended: a folder with no metadata.json, or with a metadata.json that
\* parses and no primary-asset candidate, is in errored and in no other list,
\* and its reason lists exactly the missing parts; a folder whose metadata.json
\* does not parse is in errored with the parse failure as its reason, whether
\* or not it has a candidate.
C3_MissingParts ==
    pc = "done" =>
        \A i \in Dirs :
            /\ (MetadataParses(i) /\ (NoMetadataJson(i) \/ NoCandidate(i)))
                  => ErroredWith(i, MissingReason(i))
            /\ ~MetadataParses(i)
                  => \E reason \in ParseFailureReasons : ErroredWith(i, reason)

\* a completed scan with a folder that lacks both parts and one that lacks one
C3_Witness ==
    /\ pc = "done"
    /\ \E i \in Dirs : NoMetadataJson(i) /\ NoCandidate(i)
    /\ \E i \in Dirs : MetadataParses(i) /\ ~NoMetadataJson(i) /\ NoCandidate(i)


\* the item folder i yields: it has a metadata.json that parses and a candidate
HasItem(i) == MetadataParses(i) /\ ~NoMetadataJson(i) /\ ~NoCandidate(i)

ItemOf(i) ==
    LET s == scan_folder_contents(catalogue.entries[i])
    IN [file_path |-> s.media_file, metadata |-> s.metadata_obj]

\* the three filters, each taken alone, on an item
FailsDeleted(item) == item.metadata["isDeleted"] /\ ~include_deleted
FailsType(item) ==
    \A k \in 1..Len(file_types) : file_types[k] # get_file_type(item.file_path)
FailsTag(item) ==
    /\ filter_tags.some
    /\ filter_tags.list # <<>>
    /\ {filter_tags.list[k] : k \in 1..Len(filter_tags.list)}
         \cap {item.metadata["tags"][k] : k \in 1..Len(item.metadata["tags"])} = {}

TypeReason(item) ==
    IF get_file_type(item.file_path) = "ValueError"
    THEN "Unsupported file type: " \o SuffixText(item.file_path.name)
    ELSE "File type not requested: " \o get_file_type(item.file_path)

\* the checks __handle_eagle_folder evaluated for folder i
ChecksOf(i) ==
    LET k == CHOOSE k \in 1..Len(trace) : trace[k].folder = i
    IN trace[k].checks

\* C4: the filters are applied in the order deleted, type, tag and stop at the
\* first failure: an item that fails a filter has exactly one skipped entry,
\* with the reason of the earliest failing check, and no later check is
\* evaluated for it.
C4_FirstFailureOnly ==
    pc = "done" =>
        \A i \in Dirs :
            HasItem(i) =>
                LET item == ItemOf(i)
                IN /\ FailsDeleted(item)
                        => SkippedWith(i, "Item is deleted") /\ ChecksOf(i) = <<"deleted">>
                   /\ (~FailsDeleted(item) /\ FailsType(item))
                        => /\ SkippedWith(i, TypeReason(item))
                           /\ ChecksOf(i) = <<"deleted", "type">>
                   /\ (~FailsDeleted(item) /\ ~FailsType(item) /\ FailsTag(item))
                        => /\ SkippedWith(i, "Tag mismatch")
                           /\ ChecksOf(i) = <<"deleted", "type", "tag">>

\* a completed scan with an item that fails all three filters and one that
\* fails the last two
C4_Witness ==
    /\ pc = "done"
    /\ \E i \in Dirs :
         /\ HasItem(i)
         /\ FailsDeleted(ItemOf(i)) /\ FailsType(ItemOf(i)) /\ FailsTag(ItemOf(i))
    /\ \E i \in Dirs :
         /\ HasItem(i)
         /\ ~FailsDeleted(ItemOf(i)) /\ FailsType(ItemOf(i)) /\ FailsTag(ItemOf(i))

\* C5: the tag filter has OR semantics: with a tag filter configured (a
\* non-empty list, reader.py 144), an item that passed the deleted and type
\* checks is accepted if at least one filter tag is among its tags, and is
\* skipped with "Tag mismatch" if none is.
C5_TagFilterOr ==
    (pc = "done" /\ filter_tags.some /\ filter_tags.list # <<>>) =>
        \A i \in Dirs :
            HasItem(i) =>
                LET item == ItemOf(i)
                IN (~FailsDeleted(item) /\ ~FailsType(item)) =>
                      IF \E k \in 1..Len(filter_tags.list) :
                            \E n \in 1..Len(item.metadata["tags"]) :
                                filter_tags.list[k] = item.metadata["tags"][n]
                      THEN Accepted(i)
                      ELSE SkippedWith(i, "Tag mismatch")

\* a completed scan with the filter ["a", "b"] in which an item tagged
\* ["b", "z"] was accepted and an item tagged ["c"] was skipped
C5_Witness ==
    /\ pc = "done"
    /\ filter_tags = Some(<<"a", "b">>)
    /\ \E k \in 1..Len(items) : items[k].metadata["tags"] = <<"b", "z">>
    /\ \E k \in 1..Len(items_skipped) :
         /\ items_skipped[k].item.metadata["tags"] = <<"c">>
         /\ items_skipped[k].reason = "Tag mismatch"

\* C6: if images/ does not exist, run() raises before any folder is visited:
\* the loop is never entered, the three lists stay empty and the counter
\* stays 0.
C6_FatalBeforeAnyFolder ==
    ~catalogue.imagesExists =>
        /\ pc \in {"init", "ValueError"}
        /\ items = <<>>
        /\ items_skipped = <<>>
        /\ error_paths = <<>>
        /\ scanned_folders_count = 0
        /\ trace = <<>>

\* run() has raised for a catalogue without images/
C6_Witness ==
    /\ ~catalogue.imagesExists
    /\ pc = "ValueError"

\* what became of folder i: the list it is in and the reason recorded
OutcomeOf(i) ==
    IF InErrored(i) # {}
    THEN <<"errored", error_paths[CHOOSE k \in InErrored(i) : TRUE].reason>>
    ELSE IF InSkipped(i) # {}
    THEN <<"skipped", items_skipped[CHOOSE k \in InSkipped(i) : TRUE].reason>>
    ELSE IF InAccepted(i) # {} THEN <<"accepted", "">>
    ELSE <<"none", "">>

\* what a folder with these files comes to when it is handled alone
OutcomeAlone(files) ==
    LET h == handle_eagle_folder([name |-> 1, isDir |-> TRUE, files |-> files], TRUE)
    IN IF h.errors # <<>> THEN <<"errored", h.errors[1].reason>>
       ELSE IF h.skipped # <<>> THEN <<"skipped", h.skipped[1].reason>>
       ELSE <<"accepted", "">>

\* C7: a folder-level error never aborts the scan: when images/ exists, run()
\* handles every immediate child directory, also those after a folder that
\* errored, and what becomes of a folder depends on its contents and the
\* filter configuration alone.
C7_ScanContinues ==
    pc = "done" =>
        /\ scanned_folders_count = Cardinality(Dirs)
        /\ \A i \in Dirs : \E k \in 1..Len(trace) : trace[k].folder = i
        /\ \A i \in Dirs : OutcomeOf(i) = OutcomeAlone(FilesOf(i))
        /\ \A i, j \in Dirs : FilesOf(i) = FilesOf(j) => OutcomeOf(i) = OutcomeOf(j)

\* a completed scan whose first folder had unparsable metadata and whose
\* second folder was accepted
C7_Witness ==
    /\ pc = "done"
    /\ 1 \in Dirs /\ ~MetadataParses(1)
    /\ 2 \in Dirs /\ InAccepted(2) # {}


\* C16: an item that the deleted check does not exclude and whose detected
\* media type is not among the allowed types is skipped with a reason naming
\* the detected type; when the type cannot be determined the item is skipped,
\* not errored and not accepted, with a reason naming the unsupported
\* extension; in neither case is the tag filter evaluated.
C16_TypeFilter ==
    pc = "done" =>
        \A i \in Dirs :
            HasItem(i) =>
                LET item == ItemOf(i)
                    detected_type == get_file_type(item.file_path)
                IN ~(item.metadata["isDeleted"] /\ ~include_deleted) =>
                      /\ detected_type = "ValueError" =>
                            /\ SkippedWith(i, "Unsupported file type: "
                                                 \o SuffixText(item.file_path.name))
                            /\ ChecksOf(i) = <<"deleted", "type">>
                      /\ (/\ detected_type # "ValueError"
                          /\ \A k \in 1..Len(file_types) : file_types[k] # detected_type) =>
                            /\ SkippedWith(i, "File type not requested: " \o detected_type)
                            /\ ChecksOf(i) = <<"deleted", "type">>

\* a completed scan, with a tag filter set that neither item meets, in which
\* one item was skipped for its type TEXT and one for its extension .xyz
C16_Witness ==
    /\ pc = "done"
    /\ filter_tags = Some(<<"a", "b">>)
    /\ \E k \in 1..Len(items_skipped) :
         /\ items_skipped[k].reason = "File type not requested: TEXT"
         /\ items_skipped[k].item.metadata["tags"] = <<"c">>
    /\ \E k \in 1..Len(items_skipped) :
         /\ items_skipped[k].reason = "Unsupported file type: .xyz"
         /\ items_skipped[k].item.metadata["tags"] = <<"c">>

\* C19: the folder counter counts every item directory visited, also those
\* that error or are skipped: when run() completes, scanned_folders_count
\* equals the number of immediate child directories of images/ and equals
\* len(items) + len(items_skipped) + len(error_paths).
C19_CounterCountsAll ==
    pc = "done" =>
        /\ scanned_folders_count = Cardinality(Dirs)
        /\ scanned_folders_count = Len(items) + Len(items_skipped) + Len(error_paths)

\* a completed scan of two item folders of which one was skipped and one
\* errored, and none accepted
C19_Witness ==
    /\ pc = "done"
    /\ Cardinality(Dirs) = 2
    /\ items = <<>>
    /\ Len(items_skipped) = 1
    /\ Len(error_paths) = 1
    /\ scanned_folders_count = 2

\* C13: a folder whose metadata descriptor cannot be parsed is put in errored
\* with the parse failure as its reason and is not evaluated further: it is in
\* errored exactly once, in neither accepted nor skipped, has no additional
\* "Missing ..." entry, and none of the deleted, type and tag filters is
\* applied to it.
C13_ParseFailureErrored ==
    pc = "done" =>
        \A i \in Dirs :
            ~MetadataParses(i) =>
                /\ Cardinality(InErrored(i)) = 1
                /\ \A k \in InErrored(i) : error_paths[k].reason \in ParseFailureReasons
                /\ InAccepted(i) = {}
                /\ InSkipped(i) = {}
                /\ ChecksOf(i) = <<>>

\* a completed scan with a folder whose metadata.json is no JSON text and a
\* folder whose metadata.json has a malformed palette entry, each with a
\* media file beside it
C13_Witness ==
    /\ pc = "done"
    /\ \E i \in Dirs :
         /\ ~NoCandidate(i)
         /\ ErroredWith(i, "Error reading metadata: JSONDecodeError")
    /\ \E i \in Dirs :
         /\ ~NoCandidate(i)
         /\ ErroredWith(i, "Error reading metadata: ValidationError")

(***************************************************************************)
(* Properties of _determine_main_file (SpecResolver).                      *)
(***************************************************************************)
\* x is a .heic or .dng file (in any letter case) of the list whose sibling
\* named x's full name plus ".png" is in the list too
Paired(x, cands) ==
    /\ \E i \in 1..Len(cands) : cands[i] = x
    /\ Lower(Suffix(x.name)) \in {"heic", "dng"}
    /\ \E i \in 1..Len(cands) :
         cands[i] = [dir |-> x.dir, name |-> x.name \o <<"png">>]

\* C8: whenever the candidates hold a .heic or .dng file together with its
\* ".png" sibling, _determine_main_file returns such a paired file, never the
\* preview or an unrelated candidate, whatever the order of the candidates.
C8_PairedOriginalWins ==
    (rpc = "returned" /\ \E i \in 1..Len(file_candidates) :
                            Paired(file_candidates[i], file_candidates))
        => Paired(main_file, file_candidates)

\* an unrelated file and the preview come before the paired original, whose
\* suffix is in upper case
C8_Witness ==
    /\ rpc = "returned"
    /\ file_candidates = <<[dir |-> 1, name |-> <<"a", "jpg">>],
                           [dir |-> 1, name |-> <<"photo", "HEIC", "png">>],
                           [dir |-> 1, name |-> <<"photo", "HEIC">>]>>
    /\ main_file = [dir |-> 1, name |-> <<"photo", "HEIC">>]

\* C9: when no .heic or .dng candidate has its ".png" sibling among the
\* candidates, _determine_main_file returns the first candidate, also when an
\* unpaired .heic or .dng file comes later in the list.
C9_FirstCandidateOtherwise ==
    (/\ rpc = "returned"
     /\ file_candidates # <<>>
     /\ ~\E i \in 1..Len(file_candidates) : Paired(file_candidates[i], file_candidates))
        => main_file = file_candidates[1]

\* an unpaired .heic file comes after the first candidate
C9_Witness ==
    /\ rpc = "returned"
    /\ Len(file_candidates) >= 2
    /\ file_candidates[1].name = <<"a", "jpg">>
    /\ file_candidates[2].name = <<"photo", "heic">>
    /\ ~\E i \in 1..Len(file_candidates) : Paired(file_candidates[i], file_candidates)
    /\ main_file = file_candidates[1]

\* C25: when the candidates hold both a .heic file paired with its ".heic.png"
\* sibling and a .dng file paired with its ".dng.png" sibling,
\* _determine_main_file returns the .heic file, whatever the order of the
\* candidates; a paired .dng is returned only when no .heic candidate is paired.
C25_HeicBeforeDng ==
    rpc = "returned" =>
        /\ (\E i \in 1..Len(file_candidates) :
               /\ Paired(file_candidates[i], file_candidates)
               /\ Lower(Suffix(file_candidates[i].name)) = "heic")
             => /\ Paired(main_file, file_candidates)
                /\ Lower(Suffix(main_file.name)) = "heic"
        /\ (/\ main_file # None
            /\ Paired(main_file, file_candidates)
            /\ Lower(Suffix(main_file.name)) = "dng")
             => ~\E i \in 1..Len(file_candidates) :
                    /\ Paired(file_candidates[i], file_candidates)
                    /\ Lower(Suffix(file_candidates[i].name)) = "heic"

\* the paired .dng file and its preview come before the paired .heic file,
\* and the .heic file is returned
C25_Witness ==
    /\ rpc = "returned"
    /\ file_candidates = <<[dir |-> 1, name |-> <<"raw", "dng">>],
                           [dir |-> 1, name |-> <<"raw", "dng", "png">>],
                           [dir |-> 1, name |-> <<"photo", "heic", "png">>],
                           [dir |-> 1, name |-> <<"photo", "heic">>]>>
    /\ main_file = [dir |-> 1, name |-> <<"photo", "heic">>]

\* the resolver returns absent exactly for the empty list, and otherwise a
\* member of the list (SpecResolver)
C26_AbsentOnlyWhenEmpty ==
    rpc = "returned" =>
        /\ main_file = None <=> file_candidates = <<>>
        /\ main_file # None => InList(main_file, file_candidates)

(***************************************************************************)
(* Properties of Metadata.from_json (SpecParser).                          *)
(***************************************************************************)
\* the keys of a descriptor that the schema does not declare
UnknownKeys(d) == DOMAIN d.v \ MetadataFields

\* C10: parsing a descriptor with keys unknown to the schema never fails
\* because of them, and every unknown key is preserved with its value in the
\* resulting record.
C10_UnknownKeysPreserved ==
    (ppc = "returned" /\ descriptor.t = "dict") =>
        /\ ~parsed.ok =>
              \E f \in DOMAIN descriptor.v \cap MetadataFields :
                  ~ValidField(f, descriptor.v[f])
        /\ parsed.ok =>
              \A k \in UnknownKeys(descriptor) :
                  /\ k \in DOMAIN parsed.obj
                  /\ parsed.obj[k] = descriptor.v[k]

\* C10, the part that holds: an unknown key never makes the parse fail
C10_UnknownKeysTolerated ==
    (ppc = "returned" /\ descriptor.t = "dict") =>
        (~parsed.ok =>
            \E f \in DOMAIN descriptor.v \cap MetadataFields :
                ~ValidField(f, descriptor.v[f]))

(***************************************************************************)
(* Properties of repeated scans (SpecRerun).                               *)
(***************************************************************************)
\* what the current call of run() has added to the three lists: the folders
\* with their items and reasons, in the order they were added
Yield ==
    [accepted |-> [k \in 1..(Len(items) - mark[1]) |->
                      [file_path |-> items[mark[1] + k].file_path,
                       metadata |-> items[mark[1] + k].metadata]],
     skipped |-> [k \in 1..(Len(items_skipped) - mark[2]) |-> items_skipped[mark[2] + k]],
     errored |-> [k \in 1..(Len(error_paths) - mark[3]) |-> error_paths[mark[3] + k]]]

C12_FreshListsEachRun ==
    /\ (pc = "loop" /\ idx = 1) =>
           /\ items = <<>>
           /\ items_skipped = <<>>
           /\ error_paths = <<>>
           /\ scanned_folders_count = 0
    /\ pc = "done" =>
           /\ \A i \in Dirs : Occurrences(i) = 1
           /\ scanned_folders_count = Cardinality(Dirs)
\* the palette entry has a colour triplet, three integers, and a numeric ratio
WellFormedPalette(p) ==
    /\ p.t = "dict"
    /\ "color" \in DOMAIN p.v
    /\ IsListOf(p.v["color"], "int")
    /\ Len(p.v["color"].v) = 3
    /\ "ratio" \in DOMAIN p.v
    /\ p.v["ratio"].t \in {"float", "int"}

\* C17: a descriptor with a palette entry that lacks a colour triplet (three
\* integers) or a numeric ratio makes the whole parse fail.
C17_MalformedPaletteFails ==
    (/\ ppc = "returned"
     /\ descriptor.t = "dict"
     /\ "palettes" \in DOMAIN descriptor.v
     /\ descriptor.v["palettes"].t = "list"
     /\ \E i \in 1..Len(descriptor.v["palettes"].v) :
           ~WellFormedPalette(descriptor.v["palettes"].v[i]))
        => ~parsed.ok

\* C18: for a descriptor that omits fields, parsing succeeds and each absent
\* field has its documented default: tags is empty, isDeleted is false, every
\* absent numeric field is 0 and every absent string field is the empty string.
C18_DocumentedDefaults ==
    (/\ ppc = "returned"
     /\ descriptor.t = "dict"
     /\ \A f \in DOMAIN descriptor.v \cap MetadataFields : ValidField(f, descriptor.v[f]))
        => /\ parsed.ok
           /\ \A f \in MetadataFields \ DOMAIN descriptor.v :
                 /\ f = "tags" => parsed.obj[f] = <<>>
                 /\ f = "isDeleted" => parsed.obj[f] = FALSE
                 /\ f \in IntFields => parsed.obj[f] = JInt(0)
                 /\ f \in StrFields => parsed.obj[f] = JStr("")

\* C18, the part that holds: the parse succeeds, absent tags are empty and an
\* absent isDeleted is false
C18_ListAndFlagDefaults ==
    (/\ ppc = "returned"
     /\ descriptor.t = "dict"
     /\ \A f \in DOMAIN descriptor.v \cap MetadataFields : ValidField(f, descriptor.v[f]))
        => /\ parsed.ok
           /\ "tags" \notin DOMAIN descriptor.v => parsed.obj["tags"] = <<>>
           /\ "isDeleted" \notin DOMAIN descriptor.v => parsed.obj["isDeleted"] = FALSE

(***************************************************************************)
(* Properties of __scan_folder_contents (SpecClassifier).                  *)
(***************************************************************************)
\* the name contains "_thumbnail" in some letter case
ThumbnailNameAnyCase(name) ==
    \E n \in 1..Len(name) : HasThumbnailMark(Lower(name[n]))

\* the base name is "metadata" and the extension is "json" in some letter case
DescriptorNameAnyCase(name) ==
    /\ Len(name) = 2
    /\ name[1] = "metadata"
    /\ Lower(name[2]) = "json"

\* the file is among the candidates the scan collected
IsCandidate(f) ==
    \E k \in 1..Len(scanned.media_candidates) :
        scanned.media_candidates[k] = [dir |-> item_folder.name, name |-> f.name]

\* C14: a file whose name contains "_thumbnail" in any letter case, such as
\* "x_THUMBNAIL.png", is a thumbnail: it is never a primary-asset candidate,
\* never the main file, and never read as the metadata descriptor.
C14_ThumbnailAnyCase ==
    cpc = "returned" =>
        \A k \in 1..Len(item_folder.files) :
            LET f == item_folder.files[k]
            IN (f.isFile /\ ThumbnailNameAnyCase(f.name)) =>
                  /\ ~IsCandidate(f)
                  /\ scanned.media_file # [dir |-> item_folder.name, name |-> f.name]
                  /\ f.name # MetadataJson

\* C15: a file is the metadata descriptor exactly when its base name is
\* "metadata" and its extension is "json" in any letter case, such as
\* "metadata.JSON"; such a file is never a primary-asset candidate, and every
\* file that is neither a thumbnail nor the descriptor is a candidate.
C15_DescriptorAnyCase ==
    cpc = "returned" =>
        /\ scanned.metadata_obj # None
             <=> \E k \in 1..Len(item_folder.files) :
                    /\ item_folder.files[k].isFile
                    /\ DescriptorNameAnyCase(item_folder.files[k].name)
        /\ \A k \in 1..Len(item_folder.files) :
             LET f == item_folder.files[k]
             IN f.isFile =>
                  /\ DescriptorNameAnyCase(f.name) => ~IsCandidate(f)
                  /\ (~ThumbnailNameAnyCase(f.name) /\ ~DescriptorNameAnyCase(f.name))
                        => IsCandidate(f)

(***************************************************************************)
(* Properties of the EagleAPI operations (SpecApi).                        *)
(***************************************************************************)
\* the answer is a response whose status field is "success"
SuccessResponse ==
    /\ response.kind = "response"
    /\ response.body.utf8
    /\ response.body.json
    /\ response.body.value.t = "dict"
    /\ "status" \in DOMAIN response.body.value.v
    /\ response.body.value.v["status"] = JStr("success")

\* C20: every failure of a request is surfaced as a typed failure: an
\* operation returns normally only after a response whose status field is
\* "success"; an HTTP error status, a connection failure, an unparsable body
\* and a response with another status each raise EagleAPIError, so that a
\* boolean operation never returns True or False after a failure.
C20_TypedFailure ==
    apc = "returned" =>
        /\ ~outcome.raised => SuccessResponse
        /\ ~SuccessResponse => outcome.raised /\ outcome.type = "EagleAPIError"

\* C20, the part that holds: no failure is swallowed; an operation returns
\* normally, and a boolean operation returns True, only after a response
\* whose status field is "success", and every other answer raises, with
\* EagleAPIError when the body is UTF-8 text and is no JSON or a JSON object
C20_NoFailureSwallowed ==
    apc = "returned" =>
        /\ ~outcome.raised => SuccessResponse
        /\ ~SuccessResponse => outcome.raised
        /\ (/\ ~SuccessResponse
            /\ response.kind # "URLError" => response.body.utf8
            /\ response.kind = "response" =>
                  (~response.body.json \/ response.body.value.t = "dict"))
              => outcome.type = "EagleAPIError"

\* a boolean operation has raised EagleAPIError for an answer with the status
\* "error"
C20_Witness ==
    /\ apc = "returned"
    /\ operation = "move_to_trash"
    /\ response.kind = "response"
    /\ response.body.value = JObj([status |-> JStr("error")])
    /\ outcome.raised
    /\ outcome.type = "EagleAPIError"

\* the file of folder i that this path names is a primary-asset candidate: a
\* regular file that is neither a thumbnail nor metadata.json
CandidateOf(i, path) ==
    /\ path # None
    /\ path.dir = i
    /\ \E k \in 1..Len(FilesOf(i)) :
         /\ FilesOf(i)[k].name = path.name
         /\ FilesOf(i)[k].isFile
         /\ FilesOf(i)[k].name # MetadataJson
         /\ \A n \in 1..Len(path.name) : ~HasThumbnailMark(path.name[n])

\* the primary-asset candidates of folder i, in iteration order
RECURSIVE CandidatesFrom(_, _)
CandidatesFrom(i, k) ==
    IF k > Len(FilesOf(i)) THEN <<>>
    ELSE IF CandidateOf(i, [dir |-> i, name |-> FilesOf(i)[k].name])
    THEN <<[dir |-> i, name |-> FilesOf(i)[k].name]>> \o CandidatesFrom(i, k + 1)
    ELSE CandidatesFrom(i, k + 1)

\* C26: the main asset of every item in accepted or skipped is one of the
\* primary-asset candidates of its own folder, a regular file of that folder
\* that is neither a thumbnail (name containing "_thumbnail") nor
\* metadata.json; _determine_main_file returns absent exactly when the
\* candidate list is empty and otherwise returns a member of the list.
C26_MainAssetIsCandidate ==
    /\ \A k \in 1..Len(items) :
         /\ items[k].file_path.dir \in Dirs
         /\ CandidateOf(items[k].file_path.dir, items[k].file_path)
    /\ \A k \in 1..Len(items_skipped) :
         /\ items_skipped[k].item.file_path.dir \in Dirs
         /\ CandidateOf(items_skipped[k].item.file_path.dir,
                        items_skipped[k].item.file_path)
    /\ \A i \in Dirs :
         LET cands == CandidatesFrom(i, 1)
             main == determine_main_file(cands)
         IN /\ main = None <=> cands = <<>>
            /\ main # None => InList(main, cands)

\* a completed scan that accepted the item of a folder holding a thumbnail and
\* a metadata.json beside its candidate, and skipped the item of another
C26_Witness ==
    /\ pc = "done"
    /\ Len(items) = 1
    /\ Len(items_skipped) = 1
    /\ FilesOf(items[1].file_path.dir) = <<Jpg, File(MetadataJson, DescTagged), Thumb>>
    /\ items[1].file_path.name = <<"a", "jpg">>
    /\ items_skipped[1].item.file_path.name = <<"notes", "txt">>

\* what becomes of folder i when no tag filter is given: a function of the
\* folder's contents, include_deleted and file_types alone
OutcomeWithoutTagFilter(i) ==
    IF ~MetadataParses(i)
    THEN <<"errored", "Error reading metadata: " \o
             (LET k == CHOOSE k \in 1..Len(FilesOf(i)) :
                          FilesOf(i)[k].isFile /\ FilesOf(i)[k].name = MetadataJson
              IN IF ~json_load(FilesOf(i)[k].content).ok
                 THEN json_load(FilesOf(i)[k].content).error
                 ELSE from_json(FilesOf(i)[k].content).error)>>
    ELSE IF NoMetadataJson(i) \/ NoCandidate(i) THEN <<"errored", MissingReason(i)>>
    ELSE IF FailsDeleted(ItemOf(i)) THEN <<"skipped", "Item is deleted">>
    ELSE IF FailsType(ItemOf(i)) THEN <<"skipped", TypeReason(ItemOf(i))>>
    ELSE <<"accepted", "">>

\* C27: with filter_tags given as the empty list no item is skipped with
\* "Tag mismatch", and the scan result is the same as with filter_tags absent:
\* in both cases every folder comes to what its contents, include_deleted and
\* file_types alone decide.
C27_EmptyTagFilterIsNoFilter ==
    (~filter_tags.some \/ filter_tags.list = <<>>) =>
        /\ \A k \in 1..Len(items_skipped) : items_skipped[k].reason # "Tag mismatch"
        /\ pc = "done" =>
              \A i \in Dirs :
                  /\ Occurrences(i) = 1
                  /\ OutcomeOf(i) = OutcomeWithoutTagFilter(i)
                  /\ \A k \in InAccepted(i) :
                         /\ items[k].file_path = ItemOf(i).file_path
                         /\ items[k].metadata = ItemOf(i).metadata

\* a completed scan with filter_tags = [] that accepted an item tagged "c" and
\* skipped another for a reason other than its tags
C27_Witness ==
    /\ pc = "done"
    /\ filter_tags = Some(<<>>)
    /\ \E k \in 1..Len(items) : items[k].metadata["tags"] = <<"c">>
    /\ Len(items_skipped) = 1

(***************************************************************************)
(* Properties of sidegen (SpecSidegen).                                    *)
(***************************************************************************)
\* the positions of the accepted items with media
WithMedia == {k \in 1..Len(media_list) : media_list[k].media}

\* C21: in a non-dry run a failure or exception while generating the sidecar of
\* one accepted item is caught and counted and the loop continues with the next
\* item: every accepted item with media is attempted, once and in order, and at
\* the end processed_count + error_count is the number of accepted items with
\* media.
C21_FailuresIsolated ==
    ~dry =>
        /\ \A n \in 1..Len(attempted) :
             /\ attempted[n].item \in WithMedia
             /\ attempted[n].processed + attempted[n].errors = 1
             /\ attempted[n].generate \in {"raise", "False"} => attempted[n].errors = 1
             /\ \A m \in 1..Len(attempted) : m < n => attempted[m].item < attempted[n].item
        /\ gpc = "loop" =>
             /\ {attempted[n].item : n \in 1..Len(attempted)}
                  = {k \in WithMedia : k < item_idx}
             /\ processed_count + error_count = Len(attempted)
        /\ gpc = "done" =>
             /\ {attempted[n].item : n \in 1..Len(attempted)} = WithMedia
             /\ processed_count + error_count = Cardinality(WithMedia)

\* a finished non-dry run of two items with media: the first raised in
\* generate_xmp, the second was handled after it and succeeded
C21_Witness ==
    /\ gpc = "done"
    /\ ~dry
    /\ Len(attempted) = 2
    /\ attempted[1].generate = "raise"
    /\ attempted[2].generate = "True"
    /\ processed_count = 1
    /\ error_count = 1

\* C22: with dry=True no existing sidecar is deleted and no sidecar is created
\* or changed for any item, error_count stays 0, and processed_count is the
\* number of accepted items with media.
C22_DryRunTouchesNothing ==
    dry =>
        /\ xmp_files = sidecars_before
        /\ error_count = 0
        /\ gpc = "loop" => processed_count = Cardinality({k \in WithMedia : k < item_idx})
        /\ gpc = "done" => processed_count = Cardinality(WithMedia)

\* a finished dry run over an item without media and an item with media whose
\* sidecar is still there
C22_Witness ==
    /\ gpc = "done"
    /\ dry
    /\ Len(media_list) = 2
    /\ ~media_list[1].media
    /\ xmp_files = {[path |-> [dir |-> 2, name |-> <<"photo", "heic", "xmp">>],
                     content |-> "old"]}
    /\ attempted[1].had_sidecar
    /\ processed_count = 1

\* the sidecar path of the item handled at position n of the log
SidecarPathOf(n) == with_suffix_xmp(MediaOf(attempted[n].item).path)

\* C29: in a non-dry run a pre-existing sidecar of an item is deleted before
\* generation is attempted and is not restored: an item whose XMP generation
\* fails or raises, being counted in error_count, ends with no sidecar file,
\* and an item whose generation succeeds ends with a newly generated sidecar at
\* the primary asset's path with the extension replaced by .xmp.
C29_FailedItemHasNoSidecar ==
    ~dry =>
        \A n \in 1..Len(attempted) :
            /\ attempted[n].errors = 1 => ~Exists(xmp_files, SidecarPathOf(n))
            /\ attempted[n].processed = 1 =>
                   \E f \in xmp_files : f.path = SidecarPathOf(n) /\ f.content # "old"

\* the part of C29 that holds: when generate_xmp itself returns False or
\* raises, the old sidecar is gone and none is there, and when the whole
\* generation succeeds the new sidecar stands at the .xmp path
C29_GenerateFailureLeavesNoSidecar ==
    ~dry =>
        \A n \in 1..Len(attempted) :
            /\ attempted[n].generate \in {"False", "raise"} =>
                   /\ attempted[n].errors = 1
                   /\ ~Exists(xmp_files, SidecarPathOf(n))
            /\ attempted[n].processed = 1 =>
                   /\ attempted[n].generate = "True"
                   /\ \E f \in xmp_files : f.path = SidecarPathOf(n) /\ f.content # "old"

\* an item that had a sidecar, whose generate_xmp returned False: counted as an
\* error, and its sidecar is gone
C29_Witness ==
    /\ gpc = "done"
    /\ ~dry
    /\ Len(attempted) = 1
    /\ attempted[1].had_sidecar
    /\ attempted[1].generate = "False"
    /\ error_count = 1
    /\ xmp_files = {}

(***************************************************************************)
(* Properties of the Immich client (SpecImmich).                           *)
(***************************************************************************)
\* C24: constructing the client with no base URL or no API key, neither as
\* argument nor in the environment, raises ValueError; upload_asset on a path
\* that does not exist raises FileNotFoundError without sending any request;
\* upload_asset and update_asset return the response body only when the
\* response is ok, and raise ImmichAPIError for every non-ok response.
C24_ImmichFailures ==
    /\ (mpc \notin {"off", "new"}
        /\ \/ ~Truthy(immich_args.base_url) /\ ~Truthy(immich_env.IMMICH_URL)
           \/ ~Truthy(immich_args.api_key) /\ ~Truthy(immich_env.IMMICH_API_KEY))
         => /\ mpc = "raised"
            /\ immich_outcome.type = "ValueError"
            /\ client = None
            /\ requests_sent = <<>>
    /\ (mpc \in {"raised", "returned"} /\ client # None) =>
         /\ (immich_call.op = "upload_asset" /\ immich_call.file = "absent")
              => /\ immich_outcome.type = "FileNotFoundError"
                 /\ requests_sent = <<>>
         /\ mpc = "returned"
              => /\ Len(requests_sent) = 1
                 /\ immich_response.kind = "response"
                 /\ ResponseOk(immich_response)
                 /\ immich_outcome.value = immich_response.value
         /\ (requests_sent # <<>> /\ immich_response.kind = "response"
             /\ ~ResponseOk(immich_response))
              => /\ mpc = "raised"
                 /\ immich_outcome.type = "ImmichAPIError"

\* an update_asset that was answered 401 and raised ImmichAPIError, on a client
\* whose URL came from the environment
C24_Witness ==
    /\ mpc = "raised"
    /\ ~immich_args.base_url.some
    /\ client # None
    /\ immich_call.op = "update_asset"
    /\ Len(requests_sent) = 1
    /\ immich_response.status_code = 401
    /\ immich_outcome.type = "ImmichAPIError"

(***************************************************************************)
(* Properties of the upload commands (SpecUploader).                       *)
(***************************************************************************)
\* what the commands take folder i to hold: its metadata file and its media
ScanOf(i) == UploadScan(upload_entries[i].files, 1, <<>>, None)

LacksMetadataOrMedia(i) ==
    ScanOf(i).path_metadata = None \/ ScanOf(i).media_files = <<>>

\* the tags of the item of folder i, when its metadata.json is a JSON text
CarriesTag(i, tag) ==
    /\ ScanOf(i).path_metadata # None
    /\ ScanOf(i).path_metadata.content.json
    /\ InList(tag, ScanOf(i).path_metadata.content.tags)

UploadsOf(i) == {k \in 1..Len(upload_log) :
                    upload_log[k].folder = i /\ upload_log[k].request = "upload"}

\* the update at position k of the log follows a successful upload of its item
AfterSuccessfulUpload(k) ==
    \E j \in 1..(k - 1) :
        /\ upload_log[j].folder = upload_log[k].folder
        /\ upload_log[j].request = "upload"
        /\ upload_log[j].success

\* C28: the description-update request of an item is issued only after that
\* item's upload returned success, and an item lacking metadata or media, or
\* carrying an ignore tag or the already-uploaded tag, is never uploaded.
C28_UpdateOnlyAfterUpload ==
    /\ \A k \in 1..Len(upload_log) :
         upload_log[k].request = "update" => AfterSuccessfulUpload(k)
    /\ \A i \in 1..Len(upload_entries) :
         (\/ LacksMetadataOrMedia(i)
          \/ \E t \in 1..Len(upload_options.ignore_tag) :
                 CarriesTag(i, upload_options.ignore_tag[t])
          \/ CarriesTag(i, upload_options.tag_on_uploaded))
           => UploadsOf(i) = {}

\* the part of C28 that holds: send2Immich of cli.py updates only after a
\* successful upload; neither command uploads an item lacking metadata or
\* media; send2Immich uploads no item carrying an ignore tag, and none carrying
\* the uploaded tag unless ignore_uploaded is off; execSend2Immich uploads no
\* item carrying "immich-uploaded"
C28_UploadGuards ==
    /\ entry_point = "send2Immich" =>
         \A k \in 1..Len(upload_log) :
             upload_log[k].request = "update" => AfterSuccessfulUpload(k)
    /\ \A k \in 1..Len(upload_log) :
         upload_log[k].request = "update" =>
             /\ k > 1
             /\ upload_log[k - 1].request = "upload"
             /\ upload_log[k - 1].folder = upload_log[k].folder
    /\ \A i \in 1..Len(upload_entries) :
         /\ LacksMetadataOrMedia(i) => UploadsOf(i) = {}
         /\ (\E t \in 1..Len(upload_options.ignore_tag) :
                 CarriesTag(i, upload_options.ignore_tag[t])) => UploadsOf(i) = {}
         /\ (upload_options.ignore_uploaded
             /\ CarriesTag(i, upload_options.tag_on_uploaded)) => UploadsOf(i) = {}

\* send2Immich went through a folder it uploaded and updated and a folder
\* with an ignore tag that it left alone
C28_Witness ==
    /\ upc = "done"
    /\ entry_point = "send2Immich"
    /\ Len(upload_entries) = 2
    /\ CarriesTag(2, "skip")
    /\ upload_options.ignore_tag = <<"skip">>
    /\ Len(upload_log) = 2
    /\ upload_log[2].request = "update"

(***************************************************************************)
(* Properties of the temporary XMP storage (SpecSearcher).                 *)
(***************************************************************************)
\* C30: for any sequence of generate_missing_xmps and cleanup_generated_xmps
\* calls that ends with cleanup_generated_xmps, every temporary directory
\* created by generate_missing_xmps and every generated XMP file in it has
\* been removed.
C30_TempStorageReclaimed ==
    (calls # <<>> /\ calls[Len(calls)] = "cleanup") =>
        /\ temp_dirs = {}
        /\ temp_files = {}

\* the part of C30 that holds: after a cleanup the directory of the latest
\* generate and the files in it are gone, and a directory that is still there
\* is one whose generate was followed at once by another generate
C30_LatestStorageReclaimed ==
    (calls # <<>> /\ calls[Len(calls)] = "cleanup") =>
        /\ temp_xmp_dir # <<>> => temp_xmp_dir[1] \notin temp_dirs
        /\ \A f \in temp_files : f.dir \in temp_dirs
        /\ \A d \in temp_dirs :
             \E n \in 1..(Len(calls) - 1) :
                 /\ calls[n] = "generate"
                 /\ calls[n + 1] = "generate"
                 /\ Len(SelectSeq(SubSeq(calls, 1, n), LAMBDA c : c = "generate")) = d

\* a generate that wrote an XMP, then a cleanup: nothing is left
C30_Witness ==
    /\ calls = <<"generate", "cleanup">>
    /\ generated_xmps_list # <<>>
    /\ temp_xmp_dir = <<1>>
    /\ temp_dirs = {}
    /\ temp_files = {}

(***************************************************************************)
(* Properties of from_dict (SpecRecord).                                   *)
(***************************************************************************)
\* the declared fields of the class from_dict was called on
DeclaredFields == IF record_class = "EagleFolder" THEN FolderFields ELSE ItemFields

\* C23: EagleFolder.from_dict and EagleItem.from_dict never drop an unknown
\* key: every key of the input that is not a declared field is kept in
\* _extra_data with its input value, no declared field name appears in
\* _extra_data, and _extra_data is always a mapping, empty when the input has
\* no unknown key.
C23_UnknownKeysKept ==
    dpc = "returned" =>
        /\ record.extra_data.t = "dict"
        /\ \A k \in DOMAIN record_data \ DeclaredFields :
             /\ k \in DOMAIN record.extra_data.v
             /\ record.extra_data.v[k] = record_data[k]
        /\ DOMAIN record.extra_data.v \cap DeclaredFields = {}
        /\ DOMAIN record_data \subseteq DeclaredFields => record.extra_data.v = EmptyMap

\* a folder whose dictionary carried a description, as the update of a folder
\* returns it
C23_Witness ==
    /\ dpc = "returned"
    /\ record_class = "EagleFolder"
    /\ DOMAIN record_data = {"id", "name", "description"}
    /\ record.extra_data.v["description"] = JStr("v")
    /\ record.fields["name"] = JStr("v")

====
